---- MODULE Spec2Model ----
(***************************************************************************)
(* Model of gcode-post-processing: the Timeline windowed store, the Fan   *)
(* and Toolhead simulators, the PrematureFanPipe and SmoothFanPipe, the    *)
(* Pipe chaining protocol and GCodeProcessor.run.                          *)
(*                                                                         *)
(* Timestamps are integers (simulated milliseconds).  Sequences are        *)
(* 1-based: the JavaScript index i of the source is position i + 1 here.   *)
(***************************************************************************)
EXTENDS Integers, Sequences, FiniteSets, TLC

VARIABLES
    \* ---- a stand-alone Timeline (specification SpecTimeline) ----
    windowSize_ms,  \* Timeline.windowSize_ms
    timeline,       \* Timeline.timeline: sequence of [ts, data]
    expiryCbs,      \* Timeline.expiryCbs: sequence of observer names
    delivered,      \* every observer call so far: sequence of [cb, ts, data]
    lastOp,         \* name of the last Timeline method called
    lastOut,        \* the items expired by the last call, in expiry order
    stepped,        \* timestamps of the step calls so far; the k-th call's
                    \* payload is k
    lastArg,        \* the size passed by the last call, when it was the
                    \* constructor or setWindowSize; 0 after other methods
    handles         \* the unsubscribe functions registerOnExpiry returned:
                    \* issued holds the callbacks they were returned for,
                    \* called the callbacks whose function has been called
                    \* and that were not registered again since

VARIABLES
    \* ---- GCodeProcessor.run over a chain of pipes (specification SpecRun) ----
    pipeline,       \* run's local pipeline: the pipes, head first, sink last
    pc,             \* where run is: "warmup", "stream", "finally", "rename",
                    \* "done" (resolved) or "threw" (rejected)
    fed,            \* the commands passed to pipeline[0].input so far
    error,          \* an exception left the try block
    renamed,        \* fs.renameSync(outFilePath, inPath) was executed
    args            \* the handler's arguments: speedupTime, smoothTime,
                    \* smoothingResetThreshold, and the lines the file is
                    \* made of

VARIABLES
    \* ---- one line through GCode (specification SpecGCode) ----
    encodedCommand, \* the line, a sequence of characters
    supported,      \* run's allSupportedCommands
    mode,           \* how the line was parsed: "commandOnly", "full", or
                    \* "run" (as run does, by the command's name)
    built,          \* the GCode built from the line
    serialized,     \* built.toString()
    rebuilt,        \* the GCode built in full from serialized, read back
                    \* as a line
    stage           \* "line", "parsed", "serialized" or "reparsed"

VARIABLES
    \* ---- the simulators (specification SpecSimulators) ----
    simFan,         \* a Fan
    simToolhead,    \* a Toolhead
    simBefore,      \* the Fan and the Toolhead before the last exec
    executed        \* the commands passed to exec so far

tlVars == <<windowSize_ms, timeline, expiryCbs, delivered, lastOp, lastOut, stepped,
            lastArg, handles>>
runVars == <<pipeline, pc, fed, error, renamed, args>>
gcVars == <<encodedCommand, supported, mode, built, serialized, rebuilt, stage>>
simVars == <<simFan, simToolhead, simBefore, executed>>

vars == <<tlVars, runVars, gcVars, simVars>>

\* ------------------------------------------------------------------------
\* Bounds
\* ------------------------------------------------------------------------
MaxSteps == 3                \* step calls in a Timeline run
MaxTimestamp == 3            \* timestamps passed to step are 0..MaxTimestamp
MaxWindow == 2               \* finite window sizes are 0..MaxWindow
MaxLines == 4                \* lines of the input file of a run
MaxReversalLines == 5        \* the same, for the files made of ReversalLines
MaxStreamLines == 3          \* the same, when the sink is a write stream

\* JavaScript Infinity: larger than every timestamp difference of the model.
Infinity == 1000000

Timestamps == 0..MaxTimestamp
WindowSizes == (0..MaxWindow) \cup {Infinity}

\* ------------------------------------------------------------------------
\* Generic helpers
\* ------------------------------------------------------------------------
RECURSIVE SeqMax(_)
\* Math.max(...values); Math.max() of nothing is -Infinity.
SeqMax(s) ==
    IF s = <<>> THEN -Infinity
    ELSE LET m == SeqMax(Tail(s)) IN IF Head(s) > m THEN Head(s) ELSE m

IsSortedByTs(s) == \A i \in 1..(Len(s) - 1) : s[i].ts <= s[i + 1].ts

\* ------------------------------------------------------------------------
\* Timeline (src/unnamed/part_005)
\* ------------------------------------------------------------------------
RECURSIVE ScanBack(_, _, _)
\* step: while (index >= 0 && timeline[index][0] > newTimestamp) index -= 1
\* idx is the 1-based position, 0 stands for JavaScript index -1.
ScanBack(tl, idx, newTimestamp) ==
    IF idx >= 1 /\ tl[idx].ts > newTimestamp
    THEN ScanBack(tl, idx - 1, newTimestamp)
    ELSE idx

\* Array.prototype.splice(index, 0, item): item ends up at JavaScript index
\* `index`, i.e. at 1-based position idx = index + 1.
SpliceIn(tl, idx, item) ==
    SubSeq(tl, 1, idx - 1) \o <<item>> \o SubSeq(tl, idx, Len(tl))

\* A step that always puts the new item at the oldest end.
InsertNewestFirst(tl, item) == <<item>> \o tl

\* step, lines 68-78 and 82: where the new item is put.
Insert(tl, item) ==
    IF Len(tl) > 0
    THEN LET maxIndex == Len(tl)
             idx == ScanBack(tl, maxIndex, item.ts)
         IN  IF idx = maxIndex THEN Append(tl, item)
             ELSE IF idx < 1 THEN <<item>> \o tl
             ELSE SpliceIn(tl, idx, item)
    ELSE Append(tl, item)

\* A window measure that counts both end points, under which an item
\* exactly windowSize_ms older than the newest one is outside the window.
GetFactualTimeWindowInclusive(tl) ==
    IF Len(tl) < 2 THEN 0 ELSE tl[Len(tl)].ts - tl[1].ts + 1

\* getFactualTimeWindow: last timestamp minus first timestamp, 0 when empty.
GetFactualTimeWindow(tl) ==
    IF tl = <<>> THEN 0 ELSE tl[Len(tl)].ts - tl[1].ts

\* expire that always hands the observers the oldest stored item.
ExpireOldestDelivered(tl, pos) ==
    [tl   |-> SubSeq(tl, 1, pos - 1) \o SubSeq(tl, pos + 1, Len(tl)),
     item |-> tl[1]]

\* expire(index): removes the item at the 1-based position pos and hands it
\* to the observers.  The result is the remaining items and the removed item.
Expire(tl, pos) ==
    [tl   |-> SubSeq(tl, 1, pos - 1) \o SubSeq(tl, pos + 1, Len(tl)),
     item |-> tl[pos]]

RECURSIVE TrimWindow(_, _)
\* trimWindow: while (getFactualTimeWindow() > windowSize_ms) expire(0)
\* Result: [tl |-> remaining items, out |-> expired items in expiry order].
TrimWindow(tl, w) ==
    IF GetFactualTimeWindow(tl) > w
    THEN LET e == Expire(tl, 1)
             r == TrimWindow(e.tl, w)
         IN  [tl |-> r.tl, out |-> <<e.item>> \o r.out]
    ELSE [tl |-> tl, out |-> <<>>]

\* step(newTimestamp, data): insertion, then trimWindow unless the timeline
\* was empty.
Step(tl, w, newTimestamp, data) ==
    LET item == [ts |-> newTimestamp, data |-> data]
    IN  IF Len(tl) > 0
        THEN TrimWindow(Insert(tl, item), w)
        ELSE [tl |-> Insert(tl, item), out |-> <<>>]

RECURSIVE Reset(_)
\* reset: while (timeline.length) expire(0)
Reset(tl) ==
    IF Len(tl) > 0
    THEN LET e == Expire(tl, 1)
             r == Reset(e.tl)
         IN  [tl |-> r.tl, out |-> <<e.item>> \o r.out]
    ELSE [tl |-> tl, out |-> <<>>]

RECURSIVE TrimLeft(_, _)
\* trimLeft(upTo): while (timeline.length && timeline[0][0] < upTo) expire(0)
TrimLeft(tl, upTo) ==
    IF Len(tl) > 0 /\ tl[1].ts < upTo
    THEN LET e == Expire(tl, 1)
             r == TrimLeft(e.tl, upTo)
         IN  [tl |-> r.tl, out |-> <<e.item>> \o r.out]
    ELSE [tl |-> tl, out |-> <<>>]

RECURSIVE TrimRight(_, _)
\* trimRight(downTo): expires the last item while it is newer than downTo.
TrimRight(tl, downTo) ==
    IF Len(tl) > 0 /\ tl[Len(tl)].ts > downTo
    THEN LET e == Expire(tl, Len(tl))
             r == TrimRight(e.tl, downTo)
         IN  [tl |-> r.tl, out |-> <<e.item>> \o r.out]
    ELSE [tl |-> tl, out |-> <<>>]

\* A setWindowSize that takes a negative size for its magnitude.
SetWindowSizeMagnitude(tl, w, size) ==
    LET r == TrimWindow(tl, IF size < 0 THEN -size ELSE size)
    IN  [tl |-> r.tl, w |-> IF size < 0 THEN -size ELSE size, out |-> r.out]

\* setWindowSize(size): negative sizes are ignored, otherwise the size is
\* stored and trimWindow runs.
SetWindowSize(tl, w, size) ==
    IF size < 0
    THEN [tl |-> tl, w |-> w, out |-> <<>>]
    ELSE LET r == TrimWindow(tl, size) IN [tl |-> r.tl, w |-> size, out |-> r.out]

\* A function object: a callback handed to registerOnExpiry, or the arrow
\* function registerOnExpiry pushes in its place, which calls the callback
\* and, when once is set, unsubscribe.
Callback(cb) == [fn |-> cb, wraps |-> "", once |-> FALSE]
Wrapper(cb, once) == [fn |-> "", wraps |-> cb, once |-> once]

\* unsubscribe, line 96: expiryCbs.filter((_cb) => _cb !== cb)
Unsubscribe(cbs, cb) == SelectSeq(cbs, LAMBDA entry : entry # Callback(cb))

\* registerOnExpiry(cb, once), lines 99-103
RegisterOnExpiry(cbs, cb, once) ==
    IF ~\E i \in DOMAIN cbs : cbs[i] = Callback(cb)
    THEN Append(cbs, Wrapper(cb, once)) ELSE cbs

\* expire, line 204: expiryCbs.forEach((cb) => cb(...item)); each entry
\* calls the callback it wraps.
CallObservers(cbs, item) ==
    [i \in 1..Len(cbs) |-> [cb |-> cbs[i].wraps, ts |-> item.ts, data |-> item.data]]

RECURSIVE UnsubscribeOnce(_, _)
\* What the entries called by one forEach leave in expiryCbs: each entry
\* registered with once calls unsubscribe after its callback.
UnsubscribeOnce(cbs, called) ==
    IF called = <<>> THEN cbs
    ELSE UnsubscribeOnce(
             IF Head(called).once THEN Unsubscribe(cbs, Head(called).wraps) ELSE cbs,
             Tail(called))

RECURSIVE AfterExpiry(_, _)
\* expiryCbs after the items of out have been handed to the observers.
AfterExpiry(cbs, out) ==
    IF out = <<>> THEN cbs
    ELSE AfterExpiry(UnsubscribeOnce(cbs, cbs), Tail(out))

RECURSIVE Notify(_, _)
\* The observer calls made for a sequence of expired items.
Notify(cbs, out) ==
    IF out = <<>> THEN <<>>
    ELSE CallObservers(cbs, Head(out))
         \o Notify(UnsubscribeOnce(cbs, cbs), Tail(out))

\* ------------------------------------------------------------------------
\* The variables of the parts a specification does not use
\* ------------------------------------------------------------------------
NoTimeline ==
    /\ windowSize_ms = 0
    /\ timeline = <<>>
    /\ expiryCbs = <<>>
    /\ delivered = <<>>
    /\ lastOp = "idle"
    /\ lastOut = <<>>
    /\ stepped = <<>>
    /\ lastArg = 0
    /\ handles = [issued |-> {}, called |-> {}]

NoRun ==
    /\ pipeline = <<>>
    /\ pc = "idle"
    /\ fed = <<>>
    /\ error = FALSE
    /\ renamed = FALSE
    /\ args = <<>>

NoGCode ==
    /\ encodedCommand = <<>>
    /\ supported = {}
    /\ mode = "idle"
    /\ built = <<>>
    /\ serialized = <<>>
    /\ rebuilt = <<>>
    /\ stage = "idle"

NoSimulators ==
    /\ simFan = <<>>
    /\ simToolhead = <<>>
    /\ simBefore = <<>>
    /\ executed = <<>>

\* ------------------------------------------------------------------------
\* SpecTimeline: one Timeline driven by arbitrary method calls
\* ------------------------------------------------------------------------
ObserverSets == {<<Wrapper("a", FALSE)>>, <<Wrapper("a", FALSE), Wrapper("b", FALSE)>>}
NoHandles == [issued |-> {}, called |-> {}]

\* The sizes passed to the constructor and to setWindowSize.
SizeArguments == WindowSizes \cup {-1}

\* The field initializer of windowSize_ms.
DefaultWindowSize == 0

\* new Timeline(size): the fields' initializers, then setWindowSize(size).
InitTimeline ==
    /\ \E size \in SizeArguments :
          /\ windowSize_ms = SetWindowSize(<<>>, DefaultWindowSize, size).w
          /\ lastArg = size
    /\ timeline = <<>>
    /\ expiryCbs \in ObserverSets         \* registerOnExpiry, once per observer
    /\ delivered = <<>>
    /\ lastOp = "new"
    /\ lastOut = <<>>
    /\ stepped = <<>>
    /\ handles = NoHandles
    /\ NoRun /\ NoGCode /\ NoSimulators

Call(op, r, w) ==
    /\ timeline' = r.tl
    /\ windowSize_ms' = w
    /\ lastOp' = op
    /\ lastOut' = r.out
    /\ delivered' = delivered \o Notify(expiryCbs, r.out)
    /\ expiryCbs' = AfterExpiry(expiryCbs, r.out)
    /\ UNCHANGED <<handles, runVars, gcVars, simVars>>

DoStep ==
    /\ Len(stepped) < MaxSteps
    /\ \E t \in Timestamps :
          /\ Call("step", Step(timeline, windowSize_ms, t, Len(stepped) + 1), windowSize_ms)
          /\ stepped' = Append(stepped, t)
    /\ lastArg' = 0

DoSetWindowSize ==
    /\ \E s \in (0..MaxWindow) \cup {-1} :
          LET r == SetWindowSize(timeline, windowSize_ms, s)
          IN  Call("setWindowSize", r, r.w) /\ lastArg' = s
    /\ UNCHANGED stepped

DoTrimLeft ==
    /\ \E t \in Timestamps : Call("trimLeft", TrimLeft(timeline, t), windowSize_ms)
    /\ UNCHANGED stepped /\ lastArg' = 0

DoTrimRight ==
    /\ \E t \in Timestamps : Call("trimRight", TrimRight(timeline, t), windowSize_ms)
    /\ UNCHANGED stepped /\ lastArg' = 0

DoReset ==
    /\ Call("reset", Reset(timeline), windowSize_ms)
    /\ UNCHANGED stepped /\ lastArg' = 0

NextTimeline ==
    \/ DoStep
    \/ DoSetWindowSize
    \/ DoTrimLeft
    \/ DoTrimRight
    \/ DoReset

SpecTimeline == InitTimeline /\ [][NextTimeline]_vars

\* ------------------------------------------------------------------------
\* Properties of the Timeline
\* ------------------------------------------------------------------------
TsOf(s) == {s[i].ts : i \in DOMAIN s}
StoredData == {timeline[i].data : i \in DOMAIN timeline}
CallsTo(cb, d) == {i \in DOMAIN delivered : delivered[i].cb = cb /\ delivered[i].data = d}

\* C1: with a finite window size W the stored items always satisfy
\* max(timestamp) - min(timestamp) <= W.
C1_WindowInvariant ==
    windowSize_ms # Infinity =>
        \A a, b \in TsOf(timeline) : a - b <= windowSize_ms

\* C2: the stored sequence is always in ascending (non-decreasing) timestamp
\* order.
C2_AscendingOrder == IsSortedByTs(timeline)

C4_OldestFirst ==
    /\ lastOp \in {"step", "setWindowSize", "reset"} => IsSortedByTs(lastOut)
    /\ lastOp = "reset" => timeline = <<>>

\* ------------------------------------------------------------------------
\* GCode commands (src/unnamed/part_008)
\* ------------------------------------------------------------------------
\* A command is [command, params, rawCode, id, origin]: params maps the
\* parameter keys the command carries to their numeric values, rawCode is
\* the line's text when it was parsed with commandOnly = true ("" otherwise).
\* id and origin name the object: the number of the input line for
\* origin = "file", and for a synthesized command the pipe that made it and
\* the number of the input line being processed (0 during cooldown).
NoParams == <<>>

Has(gcode, key) == key \in DOMAIN gcode.params

\* The lines a file of the model is made of; one of them is indented.
Lines ==
    {"; c", " ; c", "G1 X1 F60000", "G1 X2 F60000", "G1 X3 F60000", "G1 X1 F-60000",
     "M106 S0", "M106 S1", "M106 S2", "M107"}

\* The lines of a second kind of file: a fan switched on, a move of 10 mm at
\* 50 mm/s, the fan at full duty, the fan switched off.
ScenarioLines == {"M106 S50", "G1 X10 F3000", "M106 S255", "M107"}

\* The lines of the longer files in which the simulated time goes back: two
\* fan commands, a comment, a move and a move with a negative feed rate.
ReversalLines == {"M106 S1", "M107", "; c", "G1 X2 F60000", "G1 X1 F-60000"}

\* The leading token of a line: what new GCode(line, true) puts in command.
CommandOf(line) ==
    CASE line \in {"; c", " ; c"} -> ";"
      [] line \in {"G1 X1 F60000", "G1 X2 F60000", "G1 X3 F60000",
                   "G1 X1 F-60000", "G1 X10 F3000"} -> "G1"
      [] line \in {"M106 S0", "M106 S1", "M106 S2", "M106 S50", "M106 S255"} -> "M106"
      [] line = "M107" -> "M107"

\* The parameter map new GCode(line) builds (a comment's text is not needed).
ParamsOf(line) ==
    CASE line = "G1 X1 F60000" -> [X |-> 1, F |-> 60000]
      [] line = "G1 X2 F60000" -> [X |-> 2, F |-> 60000]
      [] line = "G1 X3 F60000" -> [X |-> 3, F |-> 60000]
      [] line = "G1 X1 F-60000" -> [X |-> 1, F |-> -60000]
      [] line = "M106 S0" -> [S |-> 0]
      [] line = "M106 S1" -> [S |-> 1]
      [] line = "M106 S2" -> [S |-> 2]
      [] line = "M106 S50" -> [S |-> 50]
      [] line = "M106 S255" -> [S |-> 255]
      [] line = "G1 X10 F3000" -> [X |-> 10, F |-> 3000]
      [] OTHER -> NoParams

\* rawCode.trim(), for the lines of the model.
Trimmed(line) == IF line = " ; c" THEN "; c" ELSE line

\* toString() without the final newline: the trimmed raw text of a command
\* that has some, otherwise the text made of the command and its parameters,
\* which is kept as that pair.
WrittenLine(gcode) ==
    IF gcode.rawCode # "" THEN Trimmed(gcode.rawCode)
    ELSE <<gcode.command, gcode.params>>

\* ------------------------------------------------------------------------
\* Fan (src/unnamed/part_006, lines 1-81)
\* ------------------------------------------------------------------------
FanCommands == {"M106", "M107"}

NewFan == [speed |-> 0, speedDelta |-> 0]

\* setSpeed(newSpeed)
FanSetSpeed(fan, newSpeed) ==
    [speed |-> newSpeed, speedDelta |-> newSpeed - fan.speed]

\* exec(gcode): M106 with an S sets the speed, M107 sets it to 0; anything
\* else leaves speed and speedDelta as they were.
FanExec(fan, gcode) ==
    IF gcode.command = "M106"
    THEN IF Has(gcode, "S") THEN FanSetSpeed(fan, gcode.params.S) ELSE fan
    ELSE IF gcode.command = "M107" THEN FanSetSpeed(fan, 0)
    ELSE fan

\* getSpeedCommand(): a fresh M106 carrying the current speed.
FanGetSpeedCommand(fan, id, origin) ==
    [command |-> "M106", params |-> [S |-> fan.speed], rawCode |-> "",
     id |-> id, origin |-> origin]

\* ------------------------------------------------------------------------
\* Toolhead (src/unnamed/part_006, lines 83-373)
\* ------------------------------------------------------------------------
ToolheadCommands == {"G90", "G91", "M82", "M83", "G1", "G92", "M204"}

NewToolhead ==
    [position |-> <<0, 0, 0, 0>>,
     positioningMode |-> "G90",
     extrusionMode |-> "M82",
     lastMoveDisplacement |-> <<0, 0, 0, 0>>,
     currentVelocity |-> 0,
     currentTime_ms |-> 0]

\* isFreeMove(vector): vector.slice(0, 1) holds the X component only.
IsFreeMove(vector) == vector[1] # 0 /\ vector[4] = 0

\* isLayerChange(vector): vector.slice(0, 1) holds the X component only.
IsLayerChange(vector) == vector[1] = 0 /\ vector[3] # 0

\* Math.hypot on integers whose sum of squares is a perfect square.
Hypot(x, y, z) ==
    LET n == x * x + y * y + z * z
    IN  CHOOSE r \in 0..n : r * r <= n /\ (r + 1) * (r + 1) > n

\* moveLength(vector): length of the X/Y/Z part.
MoveLength(vector) == Hypot(vector[1], vector[2], vector[3])

\* A move that treats every axis as absolute, whatever the mode.
MoveAxisAlwaysAbsolute(th, gcode, k, i, absolute) ==
    IF Has(gcode, k)
    THEN [d |-> gcode.params[k] - th.position[i], p |-> gcode.params[k]]
    ELSE [d |-> 0, p |-> th.position[i]]

\* One axis of move: displacement d and new position p of axis i (key k).
MoveAxis(th, gcode, k, i, absolute) ==
    IF Has(gcode, k)
    THEN IF absolute
         THEN [d |-> gcode.params[k] - th.position[i], p |-> gcode.params[k]]
         ELSE [d |-> gcode.params[k], p |-> th.position[i] + gcode.params[k]]
    ELSE [d |-> 0, p |-> th.position[i]]

\* JavaScript NaN, the value of 0 / 0.
NaN == -3000000

\* The quotient left in seconds.
MoveTimeInSeconds(distance, velocity) ==
    IF velocity = 0 THEN (IF distance = 0 THEN NaN ELSE Infinity)
    ELSE distance \div velocity

\* distance / currentVelocity * 1000 in whole milliseconds.  A negative
\* velocity gives a negative quotient; a velocity of 0 (no F seen so far)
\* gives Infinity for a move with a length and NaN for one without.
MoveTime(distance, velocity) ==
    IF velocity > 0 THEN (distance * 1000) \div velocity
    ELSE IF velocity < 0 THEN -((distance * 1000) \div (-velocity))
    ELSE IF distance = 0 THEN NaN ELSE Infinity

\* The sum of an elapsed time and the time of a move.
AddTime(time, delta) ==
    IF time = NaN \/ delta = NaN THEN NaN
    ELSE IF time = Infinity \/ delta = Infinity THEN Infinity
    ELSE time + delta

\* _updateTime: currentTime_ms += (distance / currentVelocity) * 1000.
UpdateTime(th) ==
    [th EXCEPT !.currentTime_ms =
        AddTime(@, MoveTime(MoveLength(th.lastMoveDisplacement), th.currentVelocity))]

\* move(gcode)
ToolheadMove(th, gcode) ==
    IF gcode.command # "G1" THEN th
    ELSE LET abs == th.positioningMode = "G90"
             x == MoveAxis(th, gcode, "X", 1, abs)
             y == MoveAxis(th, gcode, "Y", 2, abs)
             z == MoveAxis(th, gcode, "Z", 3, abs)
             e == MoveAxis(th, gcode, "E", 4, th.extrusionMode = "M82")
             v == IF ~Has(gcode, "F") THEN th.currentVelocity
                  ELSE IF gcode.params.F >= 0 THEN gcode.params.F \div 60
                  ELSE -((-gcode.params.F) \div 60)
         IN  UpdateTime([th EXCEPT
                 !.currentVelocity = v,
                 !.lastMoveDisplacement = <<x.d, y.d, z.d, e.d>>,
                 !.position = <<x.p, y.p, z.p, e.p>>])

\* setPositioningMode(gcode)
ToolheadSetPositioningMode(th, gcode) ==
    IF gcode.command \in {"G90", "G91"}
    THEN [th EXCEPT !.positioningMode = gcode.command] ELSE th

\* setExtrusionMode(gcode)
ToolheadSetExtrusionMode(th, gcode) ==
    IF gcode.command \in {"M82", "M83"}
    THEN [th EXCEPT !.extrusionMode = gcode.command] ELSE th

\* setPosition(gcode): G92 overrides X, Y and Z.
ToolheadSetPosition(th, gcode) ==
    IF gcode.command = "G92"
    THEN [th EXCEPT !.position =
            <<IF Has(gcode, "X") THEN gcode.params.X ELSE @[1],
              IF Has(gcode, "Y") THEN gcode.params.Y ELSE @[2],
              IF Has(gcode, "Z") THEN gcode.params.Z ELSE @[3],
              @[4]>>]
    ELSE th

\* exec(gcode): setPosition, setPositioningMode, setExtrusionMode, move.
ToolheadExec(th, gcode) ==
    ToolheadMove(
        ToolheadSetExtrusionMode(
            ToolheadSetPositioningMode(ToolheadSetPosition(th, gcode), gcode),
            gcode),
        gcode)

\* ------------------------------------------------------------------------
\* Pipes
\* ------------------------------------------------------------------------
\* Every pipe is a record with the fields of its class and
\*   sent : the commands it has passed to output(), in order
\*   life : what the Pipe protocol did to it
\*     warmups, cooldowns : how often onWarmup / onCooldown ran
\*     received           : how often input ran
\*     early, late        : input ran before onWarmup / after onCooldown
\*     order              : its hooks ran after those of every pipe before it,
\*                          before those of every pipe behind it, and onWarmup
\*                          before any pipe's input
\* A handler works on m = [p |-> the pipe, out |-> its output() calls so far]
\* and yields the m it leaves.
NewLife ==
    [warmups |-> 0, cooldowns |-> 0, received |-> 0,
     early |-> FALSE, late |-> FALSE, order |-> TRUE]

Begin(p) == [p |-> p, out |-> <<>>]

RECURSIVE Outputs(_, _)
\* The calls a pipe's expiry observer makes: (_, gcode) => this.output(gcode),
\* for each expired item once per registration.
Outputs(cbs, out) ==
    IF out = <<>> THEN <<>>
    ELSE [i \in 1..cbs |-> Head(out).data] \o Outputs(cbs, Tail(out))

\* ---- PrematureFanPipe (src/unnamed/part_002, lines 203-270) ----
\* A pipe whose timeline has a window of size 0.
PrematureFanPipeNoWindow(speedupTime) ==
    [kind |-> "premature",
     supported |-> ToolheadCommands \cup FanCommands,
     speedupTime |-> speedupTime,
     timeline |-> <<>>,
     windowSize |-> 0,
     cbs |-> 0,
     fan |-> NewFan,
     toolhead |-> NewToolhead,
     stamped |-> <<>>,
     sent |-> <<>>,
     life |-> NewLife]

\* constructor: this.timeline = new Timeline(this.speedupTime).
\* stamped is the list of timeline.step calls made so far: [ts, data].
NewPrematureFanPipe(speedupTime) ==
    [kind |-> "premature",
     supported |-> ToolheadCommands \cup FanCommands,
     speedupTime |-> speedupTime,
     timeline |-> <<>>,
     windowSize |-> speedupTime,
     cbs |-> 0,
     fan |-> NewFan,
     toolhead |-> NewToolhead,
     stamped |-> <<>>,
     sent |-> <<>>,
     life |-> NewLife]

\* onWarmup: timeline.registerOnExpiry((_, data) => this.output(data))
PrematureOnWarmup(p) == Begin([p EXCEPT !.cbs = @ + 1])

\* The pipe after a call r of one of its timeline's methods, whose expired
\* items went to the observer.
PrematureExpired(m, r) ==
    [p |-> [m.p EXCEPT !.timeline = r.tl], out |-> m.out \o Outputs(m.p.cbs, r.out)]

\* A cooldown that leaves the timeline as it is.
PrematureOnCooldownKeeps(p) == Begin(p)

\* onCooldown: timeline.reset()
PrematureOnCooldown(p) == PrematureExpired(Begin(p), Reset(p.timeline))

\* timeline.step(ts, data)
PrematureStep(m, ts, data) ==
    PrematureExpired(
        [m EXCEPT !.p.stamped = Append(@, [ts |-> ts, data |-> data])],
        Step(m.p.timeline, m.p.windowSize, ts, data))

\* input, lines 256-260: the simulators execute the command.
PrematureExec(p, gcode) ==
    [p EXCEPT
        !.toolhead = IF gcode.command \in ToolheadCommands
                     THEN ToolheadExec(@, gcode) ELSE @,
        !.fan = IF gcode.command \in FanCommands THEN FanExec(@, gcode) ELSE @]

\* An input that stores the synthesized fan command at the current time.
PrematureStoreNoLead(m, gcode) ==
    PrematureStep(
        IF m.p.fan.speedDelta > 0
        THEN PrematureStep(m, m.p.toolhead.currentTime_ms,
                           FanGetSpeedCommand(m.p.fan, gcode.id, "premature"))
        ELSE m,
        m.p.toolhead.currentTime_ms, gcode)

\* input, lines 262-268: a fan command is synthesized when speedDelta > 0,
\* then the command itself is stored.
PrematureStore(m, gcode) ==
    PrematureStep(
        IF m.p.fan.speedDelta > 0
        THEN PrematureStep(m, m.p.toolhead.currentTime_ms - m.p.speedupTime,
                           FanGetSpeedCommand(m.p.fan, gcode.id, "premature"))
        ELSE m,
        m.p.toolhead.currentTime_ms, gcode)

\* input(gcode)
PrematureInput(p, gcode) == PrematureStore(Begin(PrematureExec(p, gcode)), gcode)

\* ---- SmoothFanPipe (src/unnamed/part_002, lines 15-187) ----
\* lastEmittedSpeed = null
NullSpeed == -2000000

NewSmoothFanPipe(smoothTime, smoothingResetThreshold) ==
    [kind |-> "smooth",
     supported |-> ToolheadCommands \cup FanCommands,
     smoothTime |-> smoothTime,
     smoothingResetThreshold |-> smoothingResetThreshold,
     fan |-> NewFan,
     gcodeTimeline |-> <<>>,
     fanTimeline |-> <<>>,
     toolhead |-> NewToolhead,
     lastEmittedSpeed |-> NullSpeed,
     cbs |-> 0,
     sent |-> <<>>,
     life |-> NewLife]

\* get isSmoothing
IsSmoothing(p) == Len(p.fanTimeline) # 0

\* onWarmup: gcodeTimeline.registerOnExpiry(...); the three conditions
\* pushed to fanEmitConditions are the three operators below.
SmoothOnWarmup(p) == Begin([p EXCEPT !.cbs = @ + 1])

\* smoothTimeCondition: !!lastTimestamp && currentTime_ms - lastTimestamp >= smoothTime
SmoothTimeCondition(p) ==
    /\ p.fanTimeline # <<>>
    /\ p.fanTimeline[Len(p.fanTimeline)].ts # 0
    /\ p.toolhead.currentTime_ms - p.fanTimeline[Len(p.fanTimeline)].ts >= p.smoothTime

FreeMoveThresholdCondition(p) ==
    /\ IsFreeMove(p.toolhead.lastMoveDisplacement)
    /\ MoveLength(p.toolhead.lastMoveDisplacement) > p.smoothingResetThreshold

LayerChangeCondition(p) == IsLayerChange(p.toolhead.lastMoveDisplacement)

\* fanEmitConditions.map((condition) => condition()).includes(true)
ShouldEmitFan(p) ==
    SmoothTimeCondition(p) \/ FreeMoveThresholdCondition(p) \/ LayerChangeCondition(p)

\* The pipe after a call r of a gcodeTimeline method, whose expired items
\* went to the observer.
GcodeExpired(m, r) ==
    [p |-> [m.p EXCEPT !.gcodeTimeline = r.tl],
     out |-> m.out \o Outputs(m.p.cbs, r.out)]

\* The pipe after a call r of a fanTimeline method (it has no observer).
FanExpired(m, r) == [m EXCEPT !.p.fanTimeline = r.tl]

\* An emitFan that stamps the fan command for the maximum with the current
\* simulated time, behind the pending commands.
EmitFanInsertNow(m, id, maxFanSpeed) ==
    IF maxFanSpeed >= 0 /\ maxFanSpeed # m.p.lastEmittedSpeed
    THEN GcodeExpired(m, Step(m.p.gcodeTimeline, Infinity, m.p.toolhead.currentTime_ms,
             FanGetSpeedCommand(FanSetSpeed(NewFan, maxFanSpeed), id, "smooth")))
    ELSE m

\* emitFan, lines 155-162: the fan command for the maximum is put at
\* timestamp -1 when the maximum is valid and was not the last one emitted.
EmitFanInsert(m, id, maxFanSpeed) ==
    IF maxFanSpeed >= 0 /\ maxFanSpeed # m.p.lastEmittedSpeed
    THEN GcodeExpired(m, Step(m.p.gcodeTimeline, Infinity, -1,
             FanGetSpeedCommand(FanSetSpeed(NewFan, maxFanSpeed), id, "smooth")))
    ELSE m

\* An emitFan without look-ahead: it empties both stores whatever the number
\* of samples.
EmitFanReleaseAll(m, size, last) ==
    GcodeExpired(FanExpired(m, Reset(m.p.fanTimeline)), Reset(m.p.gcodeTimeline))

\* emitFan, lines 164-183; last is rawFanTimeline.at(-1).  The timestamps of
\* the model are integers, so trimLeft(timestamp + 0.000001) removes the
\* items with a timestamp below timestamp + 1.
EmitFanRelease(m, size, last) ==
    IF size > 1
    THEN GcodeExpired(
             FanExpired(m, Step(Reset(m.p.fanTimeline).tl, Infinity, last.ts, last.data)),
             TrimLeft(m.p.gcodeTimeline, last.ts + 1))
    ELSE GcodeExpired(FanExpired(m, Reset(m.p.fanTimeline)), Reset(m.p.gcodeTimeline))

\* An emitFan that does not record the resolved duty as the last emitted one.
EmitFanWithForgets(m, id, maxFanSpeed) ==
    EmitFanRelease(EmitFanInsert(m, id, maxFanSpeed),
                   Len(m.p.fanTimeline),
                   IF m.p.fanTimeline = <<>> THEN [ts |-> 0, data |-> 0]
                   ELSE m.p.fanTimeline[Len(m.p.fanTimeline)])

\* emitFan, with maxFanSpeed computed (lines 151-153).
EmitFanWith(m, id, maxFanSpeed) ==
    [EmitFanRelease(EmitFanInsert(m, id, maxFanSpeed),
                    Len(m.p.fanTimeline),
                    IF m.p.fanTimeline = <<>> THEN [ts |-> 0, data |-> 0]
                    ELSE m.p.fanTimeline[Len(m.p.fanTimeline)])
        EXCEPT !.p.lastEmittedSpeed = maxFanSpeed]

\* emitFan(); id names the input line being processed.
EmitFan(m, id) ==
    EmitFanWith(m, id,
        SeqMax([i \in 1..Len(m.p.fanTimeline) |-> m.p.fanTimeline[i].data]))

\* input, line 125: the toolhead executes the command.
SmoothExec(p, gcode) ==
    IF gcode.command \in ToolheadCommands
    THEN [p EXCEPT !.toolhead = ToolheadExec(@, gcode)] ELSE p

\* input, lines 127-132
SmoothResolve(m, gcode) ==
    IF IsSmoothing(m.p) /\ ShouldEmitFan(m.p) THEN EmitFan(m, gcode.id) ELSE m

\* An input that records a fan sample for every fan command.
SmoothFanAlways(m, fan) ==
    FanExpired([m EXCEPT !.p.fan = fan],
               Step(m.p.fanTimeline, Infinity, m.p.toolhead.currentTime_ms, fan.speed))

\* input, lines 135-139: the fan has executed the command and is now `fan`.
SmoothFan(m, fan) ==
    IF m.p.fan.speed # fan.speed
    THEN FanExpired([m EXCEPT !.p.fan = fan],
                    Step(m.p.fanTimeline, Infinity, m.p.toolhead.currentTime_ms, fan.speed))
    ELSE [m EXCEPT !.p.fan = fan]

\* gcodeTimeline.step(currentTime_ms, gcode)
SmoothStep(m, gcode) ==
    GcodeExpired(m, Step(m.p.gcodeTimeline, Infinity, m.p.toolhead.currentTime_ms, gcode))

\* An input that stores the fan commands among the pending commands too.
SmoothStoreAll(m, gcode) ==
    SmoothStep(IF gcode.command \in FanCommands
               THEN SmoothFan(m, FanExec(m.p.fan, gcode)) ELSE m,
               gcode)

\* input, lines 134-142
SmoothStore(m, gcode) ==
    IF gcode.command \in FanCommands
    THEN SmoothFan(m, FanExec(m.p.fan, gcode))
    ELSE SmoothStep(m, gcode)

\* An input that leaves the pending commands stored when it ends idle.
SmoothIdleKeeps(m) == m

\* input, line 144
SmoothIdle(m) ==
    IF ~IsSmoothing(m.p) THEN GcodeExpired(m, Reset(m.p.gcodeTimeline)) ELSE m

\* input(gcode)
SmoothInput(p, gcode) ==
    SmoothIdle(SmoothStore(SmoothResolve(Begin(SmoothExec(p, gcode)), gcode), gcode))

\* onCooldown, lines 115-116
SmoothResets(m) ==
    GcodeExpired(FanExpired(m, Reset(m.p.fanTimeline)), Reset(m.p.gcodeTimeline))

\* A cooldown that resolves the pending fan samples once only.
SmoothOnCooldownOnce(p) ==
    SmoothResets(IF IsSmoothing(p) THEN EmitFan(Begin(p), 0) ELSE Begin(p))

\* onCooldown: if (isSmoothing) emitFan(), emitFan(); then both resets.
SmoothOnCooldown(p) ==
    SmoothResets(IF IsSmoothing(p) THEN EmitFan(EmitFan(Begin(p), 0), 0) ELSE Begin(p))

\* ---- OutputPipe (src/src/shared/gcode-processor/pipes/output.pipe.ts) ----
\* file is what the output file holds (one entry per gcode.toString(), kept
\* as the command that was serialized), open tells whether the file
\* descriptor is open.  The source holds OutputPipe twice: this one writes
\* through a file descriptor with synchronous calls, the other one
\* (src/unnamed/part_004) through an fs.WriteStream; variant tells them apart.
\* pending and ending are the write stream's: the chunks passed to write()
\* that have not reached the file yet, and whether close() has been called.
NewOutputPipe ==
    [kind |-> "output", variant |-> "descriptor", supported |-> {},
     file |-> <<>>, open |-> TRUE, pending |-> <<>>, ending |-> FALSE,
     sent |-> <<>>, life |-> NewLife]

\* onWarmup: fs.writeFileSync(fd, '')
OutputOnWarmup(p) == Begin([p EXCEPT !.file = <<>>])

\* onCooldown: fs.closeSync(fd)
OutputOnCooldown(p) == Begin([p EXCEPT !.open = FALSE])

\* input(gcode): fs.appendFileSync(fd, gcode.toString())
OutputInput(p, gcode) == Begin([p EXCEPT !.file = Append(@, gcode)])

\* ---- OutputPipe over a write stream (src/unnamed/part_004) ----
\* constructor: fs.createWriteStream(outFilePath).  The stream's open, which
\* truncates the file, is taken to have completed before the first line is
\* read.
NewStreamOutputPipe == [NewOutputPipe EXCEPT !.variant = "stream"]

\* onWarmup: empty
StreamOnWarmup(p) == Begin(p)

\* onCooldown: writeStream.close(), which ends the stream: the descriptor is
\* closed once the chunks written so far have reached the file.
StreamOnCooldown(p) == Begin([p EXCEPT !.ending = TRUE])

\* input(gcode): writeStream.write(gcode.toString()), which queues the chunk.
StreamInput(p, gcode) == Begin([p EXCEPT !.pending = Append(@, gcode)])

\* The two OutputPipe classes.
SinkVariants == {NewOutputPipe, NewStreamOutputPipe}

\* ------------------------------------------------------------------------
\* Pipe protocol (src/src/shared/pipe.ts)
\* ------------------------------------------------------------------------
\* The input method of the pipe's class.
PipeInput(p, gcode) ==
    CASE p.kind = "premature" -> PrematureInput(p, gcode)
      [] p.kind = "smooth" -> SmoothInput(p, gcode)
      [] p.kind = "output" /\ p.variant = "descriptor" -> OutputInput(p, gcode)
      [] p.kind = "output" /\ p.variant = "stream" -> StreamInput(p, gcode)

\* The onWarmup hook of the pipe's class.
PipeOnWarmup(p) ==
    CASE p.kind = "premature" -> PrematureOnWarmup(p)
      [] p.kind = "smooth" -> SmoothOnWarmup(p)
      [] p.kind = "output" /\ p.variant = "descriptor" -> OutputOnWarmup(p)
      [] p.kind = "output" /\ p.variant = "stream" -> StreamOnWarmup(p)

\* The onCooldown hook of the pipe's class.
PipeOnCooldown(p) ==
    CASE p.kind = "premature" -> PrematureOnCooldown(p)
      [] p.kind = "smooth" -> SmoothOnCooldown(p)
      [] p.kind = "output" /\ p.variant = "descriptor" -> OutputOnCooldown(p)
      [] p.kind = "output" /\ p.variant = "stream" -> StreamOnCooldown(p)

\* The bookkeeping of life when input, onWarmup or onCooldown starts on pl[i].
EnterInput(pl, i) ==
    [pl[i] EXCEPT !.life.received = @ + 1,
                  !.life.early = @ \/ pl[i].life.warmups = 0,
                  !.life.late = @ \/ pl[i].life.cooldowns > 0]

EnterWarmup(pl, i) ==
    [pl[i] EXCEPT
        !.life.warmups = @ + 1,
        !.life.order = /\ @
                       /\ \A j \in 1..(i - 1) : pl[j].life.warmups > 0
                       /\ \A j \in (i + 1)..Len(pl) : pl[j].life.warmups = 0
                       /\ \A j \in 1..Len(pl) : pl[j].life.received = 0]

EnterCooldown(pl, i) ==
    [pl[i] EXCEPT
        !.life.cooldowns = @ + 1,
        !.life.order = /\ @
                       /\ \A j \in 1..(i - 1) : pl[j].life.cooldowns > 0
                       /\ \A j \in (i + 1)..Len(pl) : pl[j].life.cooldowns = 0]

RECURSIVE Input(_, _, _)
RECURSIVE Forward(_, _, _)

\* output(gcode), for each element of out in turn: nothing without a
\* nextPipe, otherwise nextPipe.input(gcode).  pl is the chain, i the
\* position of the calling pipe.
Forward(pl, i, out) ==
    IF out = <<>> \/ i >= Len(pl) THEN pl
    ELSE Forward(Input(pl, i + 1, Head(out)), i, Tail(out))

\* The chain after a handler of pl[i] has left m: its output() calls have
\* gone down the chain.
Handled(pl, i, m) ==
    Forward([pl EXCEPT ![i] = [m.p EXCEPT !.sent = @ \o m.out]], i, m.out)

\* pl[i].input(gcode), with everything it forwards down the chain.
Input(pl, i, gcode) == Handled(pl, i, PipeInput(EnterInput(pl, i), gcode))

RECURSIVE Warmup(_, _)
\* nextPipe.warmup() if there is a nextPipe.
WarmupNext(pl, i) == IF i < Len(pl) THEN Warmup(pl, i + 1) ELSE pl

\* pl[i].warmup(): onWarmup(), then nextPipe.warmup().
Warmup(pl, i) == WarmupNext(Handled(pl, i, PipeOnWarmup(EnterWarmup(pl, i))), i)

RECURSIVE CooldownTailFirst(_, _)
\* A cooldown that cools the next pipe down before it runs its own hook.
CooldownNextFirst(pl, i) == IF i < Len(pl) THEN CooldownTailFirst(pl, i + 1) ELSE pl

CooldownHook(pl, i) == Handled(pl, i, PipeOnCooldown(EnterCooldown(pl, i)))

CooldownTailFirst(pl, i) == CooldownHook(CooldownNextFirst(pl, i), i)

RECURSIVE Cooldown(_, _)
\* nextPipe.cooldown() if there is a nextPipe.
CooldownNext(pl, i) == IF i < Len(pl) THEN Cooldown(pl, i + 1) ELSE pl

\* pl[i].cooldown(): onCooldown(), then nextPipe.cooldown().
Cooldown(pl, i) ==
    CooldownNext(Handled(pl, i, PipeOnCooldown(EnterCooldown(pl, i))), i)

\* ------------------------------------------------------------------------
\* GCodeProcessor.run (src/src/shared/gcode-processor/gcode-processor.ts)
\* and the fan-optimizer handler (src/unnamed/part_001)
\* ------------------------------------------------------------------------
\* Values of the speedupTime and smoothTime arguments; the reset threshold.
SpeedupTimes == {0, 2}
SmoothTimes == {0, 2}
ResetThresholds == {2}

\* The arguments of the runs over files made of ScenarioLines: no
\* PrematureFanPipe, the default smoothTime, and a reset threshold below and
\* above the length of the file's move.
ScenarioSmoothTime == 300
ScenarioThresholds == {5, 20}

\* handler, lines 48-52: the pipes added to the processor.
HandlerPipes(speedupTime, smoothTime, smoothingResetThreshold) ==
    (IF speedupTime > 0 THEN <<NewPrematureFanPipe(speedupTime)>> ELSE <<>>)
    \o (IF smoothTime > 0
        THEN <<NewSmoothFanPipe(smoothTime, smoothingResetThreshold)>> ELSE <<>>)

\* run, lines 50-51: the local pipeline with the OutputPipe pushed at its end.
RunPipeline(pipes, sink) == pipes \o <<sink>>

\* connectPipes: the union of the pipes' supported commands (the nextPipe
\* links it sets are the positions in the sequence).
ConnectPipes(pl) == UNION {pl[i].supported : i \in DOMAIN pl}

\* run, lines 59-60: new GCode(line, true), parsed again in full when the
\* command is supported by some pipe.
ParseLine(line, id, allSupportedCommands) ==
    LET full == CommandOf(line) \in allSupportedCommands
    IN  [command |-> CommandOf(line),
         params |-> IF full THEN ParamsOf(line) ELSE NoParams,
         rawCode |-> IF full THEN "" ELSE line,
         id |-> id,
         origin |-> "file"]

\* try { ... } finally { ... }: where control goes when the try block is left,
\* by its end or by an exception.
LeaveTry(threw) == "finally"

\* A finally block that swallows the pending exception.
LeaveFinallySwallows(pending) == "rename"

\* After the finally block: a pending exception rejects the promise,
\* otherwise run goes on to fs.renameSync.
LeaveFinally(pending) == IF pending THEN "threw" ELSE "rename"

\* The arguments of the handler, with the lines of the file it is given.
Arguments ==
    [speedupTime : SpeedupTimes, smoothTime : SmoothTimes,
     smoothingResetThreshold : ResetThresholds, lines : {Lines}]
    \cup [speedupTime : {0}, smoothTime : {ScenarioSmoothTime},
          smoothingResetThreshold : ScenarioThresholds, lines : {ScenarioLines}]
    \cup [speedupTime : {0}, smoothTime : {2},
          smoothingResetThreshold : ResetThresholds, lines : {ReversalLines}]

InitRun ==
    /\ args \in Arguments
    /\ \E sink \in SinkVariants :
          pipeline = RunPipeline(HandlerPipes(args.speedupTime, args.smoothTime,
                                              args.smoothingResetThreshold), sink)
    /\ pc = "warmup"
    /\ fed = <<>>
    /\ error = FALSE
    /\ renamed = FALSE
    /\ NoTimeline /\ NoGCode /\ NoSimulators

\* pipeline[0].warmup()
RunWarmup ==
    /\ pc = "warmup"
    /\ pipeline' = Warmup(pipeline, 1)
    /\ pc' = "stream"
    /\ UNCHANGED <<fed, error, renamed, args, tlVars, gcVars, simVars>>

\* pipeline[0].warmup() throws: the hooks ran down to OutputPipe.onWarmup,
\* whose fs.writeFileSync failed.
RunWarmupThrows ==
    /\ pc = "warmup"
    /\ pipeline' = Warmup(pipeline, 1)
    /\ error' = TRUE
    /\ pc' = LeaveTry(TRUE)
    /\ UNCHANGED <<fed, renamed, args, tlVars, gcVars, simVars>>

\* The sink of a chain, and the number of lines read in a run over it.
Sink(pl) == pl[Len(pl)]
LineBound(pl) ==
    IF Sink(pl).variant = "stream" THEN MaxStreamLines
    ELSE IF args.lines = ReversalLines THEN MaxReversalLines ELSE MaxLines

\* One iteration of the for-await loop: the next line is parsed and fed to
\* the head pipe.
RunInput ==
    /\ pc = "stream"
    /\ Len(fed) < LineBound(pipeline)
    /\ \E line \in args.lines :
          LET gcode == ParseLine(line, Len(fed) + 1, ConnectPipes(pipeline))
          IN  /\ pipeline' = Input(pipeline, 1, gcode)
              /\ fed' = Append(fed, gcode)
    /\ UNCHANGED <<pc, error, renamed, args, tlVars, gcVars, simVars>>

\* An iteration throws (reading the next line, or the input call at its
\* start): control leaves the try block with the pipes as they were.
RunInputThrows ==
    /\ pc = "stream"
    /\ error' = TRUE
    /\ pc' = LeaveTry(TRUE)
    /\ UNCHANGED <<pipeline, fed, renamed, args, tlVars, gcVars, simVars>>

\* The input is exhausted: the loop ends.
RunEndOfFile ==
    /\ pc = "stream"
    /\ pc' = LeaveTry(FALSE)
    /\ UNCHANGED <<pipeline, fed, error, renamed, args, tlVars, gcVars, simVars>>

\* finally { pipeline[0].cooldown() }
RunCooldown ==
    /\ pc = "finally"
    /\ pipeline' = Cooldown(pipeline, 1)
    /\ pc' = LeaveFinally(error)
    /\ UNCHANGED <<fed, error, renamed, args, tlVars, gcVars, simVars>>

\* fs.renameSync(outFilePath, inPath)
RunRename ==
    /\ pc = "rename"
    /\ renamed' = TRUE
    /\ pc' = "done"
    /\ UNCHANGED <<pipeline, fed, error, args, tlVars, gcVars, simVars>>

\* run is suspended (awaiting the next line) or has been left: the event
\* loop is free to make progress on the write stream.
EventLoopTurn == pc \in {"stream", "done", "threw"}

\* The write stream writes the k oldest chunks of its queue to the file.
StreamWrite ==
    /\ EventLoopTurn
    /\ Sink(pipeline).variant = "stream"
    /\ \E k \in 1..Len(Sink(pipeline).pending) :
          pipeline' = [pipeline EXCEPT
              ![Len(pipeline)].file = @ \o SubSeq(Sink(pipeline).pending, 1, k),
              ![Len(pipeline)].pending = SubSeq(@, k + 1, Len(@))]
    /\ UNCHANGED <<pc, fed, error, renamed, args, tlVars, gcVars, simVars>>

\* The ended write stream has written every chunk: it closes its descriptor.
StreamClose ==
    /\ EventLoopTurn
    /\ Sink(pipeline).variant = "stream"
    /\ Sink(pipeline).ending /\ Sink(pipeline).open
    /\ Sink(pipeline).pending = <<>>
    /\ pipeline' = [pipeline EXCEPT ![Len(pipeline)].open = FALSE]
    /\ UNCHANGED <<pc, fed, error, renamed, args, tlVars, gcVars, simVars>>

NextRun ==
    \/ RunWarmup
    \/ RunWarmupThrows
    \/ RunInput
    \/ RunInputThrows
    \/ RunEndOfFile
    \/ RunCooldown
    \/ RunRename
    \/ StreamWrite
    \/ StreamClose

SpecRun == InitRun /\ [][NextRun]_vars

\* ------------------------------------------------------------------------
\* Properties of the pipes and of run
\* ------------------------------------------------------------------------
IsFanCommand(gcode) == gcode.command \in FanCommands

\* The duty in force after a command, given the duty before it.
DutyAfter(gcode, duty) ==
    IF gcode.command = "M106" /\ Has(gcode, "S") THEN gcode.params.S
    ELSE IF gcode.command = "M107" THEN 0
    ELSE duty

RECURSIVE DutyAt(_, _)
\* The duty in force after the first n commands of cmds.
DutyAt(cmds, n) == IF n = 0 THEN 0 ELSE DutyAfter(cmds[n], DutyAt(cmds, n - 1))

\* The positions of the fan commands of cmds that strictly increased the duty.
Increases(cmds) ==
    {n \in DOMAIN cmds : IsFanCommand(cmds[n]) /\ DutyAt(cmds, n) > DutyAt(cmds, n - 1)}

RECURSIVE Select(_, _)
SelectNonFan(cmds) == Select(cmds, FALSE)
SelectFan(cmds) == Select(cmds, TRUE)
\* The fan commands (fan = TRUE) or the other commands of cmds, in order.
Select(cmds, fan) ==
    IF cmds = <<>> THEN <<>>
    ELSE (IF IsFanCommand(Head(cmds)) = fan THEN <<Head(cmds)>> ELSE <<>>)
         \o Select(Tail(cmds), fan)

\* Every feed rate of cmds is positive.
PositiveFeed(cmds) ==
    \A n \in DOMAIN cmds : Has(cmds[n], "F") => cmds[n].params.F > 0

Positions(cmds, gcode) == {j \in DOMAIN cmds : cmds[j] = gcode}

HeadIsPremature == pipeline # <<>> /\ pipeline[1].kind = "premature"
HeadIsSmooth == pipeline # <<>> /\ pipeline[1].kind = "smooth"
CooledDown == pc \in {"rename", "done", "threw"}

\* The timestamp the PrematureFanPipe at the head stored the n-th input with.
StampOf(n) ==
    LET k == CHOOSE k \in DOMAIN pipeline[1].stamped : pipeline[1].stamped[k].data = fed[n]
    IN  pipeline[1].stamped[k].ts

\* The fan command the pipe synthesized while it processed the n-th input.
IsSynthOf(gcode, n) == gcode.origin = "premature" /\ gcode.id = n

\* The n-th input has left the pipe and the command synthesized on the k-th
\* input had not left it before.
LeftBeforeSynth(n, k) ==
    \E j \in Positions(pipeline[1].sent, fed[n]) :
        \A i \in 1..(j - 1) : ~IsSynthOf(pipeline[1].sent[i], k)

C6_SynthesizedOnlyOnIncrease ==
    (HeadIsPremature /\ CooledDown) =>
        Len(pipeline[1].sent) = Len(fed) + Cardinality(Increases(fed))


\* Every fan command of cmds sets the duty d, and there is one.
ConstantDuty(cmds, d) ==
    /\ SelectFan(cmds) # <<>>
    /\ \A n \in DOMAIN cmds : IsFanCommand(cmds[n]) => DutyAfter(cmds[n], d + 1) = d

\* The output of the SmoothFanPipe at the head holds exactly one fan command,
\* and it carries the duty d.
OneFanCommand(d) ==
    /\ Len(SelectFan(pipeline[1].sent)) = 1
    /\ DutyAfter(SelectFan(pipeline[1].sent)[1], d + 1) = d

\* C7: fed fan commands that all set the same duty d, and motion between
\* them, SmoothFanPipe has forwarded exactly one fan command after cooldown,
\* and it carries d.
C7_SmoothingIdempotent ==
    (HeadIsSmooth /\ CooledDown) =>
        \A d \in 0..2 : ConstantDuty(fed, d) => OneFanCommand(d)

\* C7, amended: fed fan commands that all set the same duty d, other than the
\* duty 0 the fan starts with, and motion between them, SmoothFanPipe has
\* forwarded exactly one fan command after cooldown, and it carries d.
C7_SmoothingIdempotentFromChange ==
    (HeadIsSmooth /\ CooledDown) =>
        \A d \in 1..2 : ConstantDuty(fed, d) => OneFanCommand(d)

\* C7 witness: the first line sets the duty d > 0 at time 0, it is repeated
\* after motion that takes longer than smoothTime, and the run is complete.
C7_Witness ==
    /\ HeadIsSmooth /\ pc = "done"
    /\ \E d \in 1..2 : ConstantDuty(fed, d) /\ OneFanCommand(d)
    /\ IsFanCommand(fed[1]) /\ Len(SelectFan(fed)) >= 2
    /\ PositiveFeed(fed)
    /\ pipeline[1].toolhead.currentTime_ms > pipeline[1].smoothTime

\* What the sink has written: the content of the output file once the
\* chunks still queued in a write stream have reached it.
OutputFile == Sink(pipeline).file \o Sink(pipeline).pending

C9_Lifecycle ==
    \A i \in DOMAIN pipeline :
        /\ pipeline[i].life.order
        /\ ~pipeline[i].life.early
        /\ ~pipeline[i].life.late
        /\ pipeline[i].life.warmups = (IF pc = "warmup" THEN 0 ELSE 1)
        /\ pipeline[i].life.cooldowns = (IF CooledDown THEN 1 ELSE 0)
        /\ (pc = "warmup" => pipeline[i].life.received = 0)

\* C9 witness: a completed run through both pipes in which cooldown made the
\* PrematureFanPipe flush commands into the pipes behind it.
C9_Witness ==
    /\ pc = "done" /\ Len(pipeline) = 3 /\ Len(fed) >= 2
    /\ pipeline[2].life.received >= Len(fed)
    /\ pipeline[3].life.received >= Len(fed)
    /\ \A i \in DOMAIN pipeline :
          pipeline[i].life.warmups = 1 /\ pipeline[i].life.cooldowns = 1

\* C10: when warmup or an iteration of the loop has thrown, the head pipe has
\* been cooled down exactly once by the time run is left, run is left by the
\* exception, and the rename is never executed.
C10_ErrorPath ==
    error =>
        /\ ~renamed
        /\ pc \in {"finally", "threw"}
        /\ (pc = "threw" => pipeline[1].life.cooldowns = 1)

\* C10 witness: an iteration threw after lines had been fed, and run has
\* been left by the exception with the head pipe cooled down.
C10_Witness ==
    /\ error /\ pc = "threw" /\ Len(fed) >= 2
    /\ pipeline[1].life.cooldowns = 1 /\ ~renamed

\* ------------------------------------------------------------------------
\* Flushing at cooldown
\* ------------------------------------------------------------------------
RECURSIVE DataOf(_)
\* The payloads of the items of a timeline, oldest first.
DataOf(tl) == IF tl = <<>> THEN <<>> ELSE <<Head(tl).data>> \o DataOf(Tail(tl))

\* The commands a pipe holds back: the items of the PrematureFanPipe's
\* timeline, the items of the SmoothFanPipe's gcodeTimeline.
Buffered(p) ==
    CASE p.kind = "premature" -> DataOf(p.timeline)
      [] p.kind = "smooth" -> DataOf(p.gcodeTimeline)
      [] OTHER -> <<>>

\* The timelines of a pipe hold nothing.
Drained(p) ==
    CASE p.kind = "premature" -> p.timeline = <<>>
      [] p.kind = "smooth" -> p.gcodeTimeline = <<>> /\ p.fanTimeline = <<>>
      [] OTHER -> TRUE

\* C11: the cooldown of a warmed-up chain, after any inputs, leaves the
\* timeline of the PrematureFanPipe and both timelines of the SmoothFanPipe
\* empty, and every command a pipe held back when the cooldown started has
\* been passed to its output().
C11_CooldownFlushes ==
    [][pc = "finally" =>
          \A i \in DOMAIN pipeline :
              /\ Drained(pipeline'[i])
              /\ \A k \in DOMAIN Buffered(pipeline[i]) :
                    Positions(pipeline'[i].sent, Buffered(pipeline[i])[k]) # {}]_vars

\* C11 witness: a completed run through both pipes; the PrematureFanPipe has
\* forwarded the last line, which its window held until the cooldown, the
\* SmoothFanPipe has forwarded a fan command of its own, and no timeline
\* holds anything.
C11_Witness ==
    /\ pc = "done" /\ Len(pipeline) = 3 /\ Len(fed) >= 2
    /\ \A i \in DOMAIN pipeline : Drained(pipeline[i])
    /\ Positions(pipeline[1].sent, fed[Len(fed)]) # {}
    /\ pipeline[2].sent # <<>>
    /\ pipeline[2].sent[Len(pipeline[2].sent)].origin = "smooth"
    /\ pipeline[1].life.warmups = 1

\* ------------------------------------------------------------------------
\* The rename and the writes of the sink
\* ------------------------------------------------------------------------
\* The commands passed to the sink's input, in emission order.
Emitted ==
    IF Len(pipeline) = 1 THEN fed ELSE pipeline[Len(pipeline) - 1].sent

\* C12: the rename of the output file over the input file is executed only
\* after every command emitted to the sink has been written to the output
\* file, in emission order, and the sink has been closed: no write is
\* pending once the rename has happened.
C12_ReplaceAfterWrite ==
    renamed =>
        /\ Sink(pipeline).file = Emitted
        /\ Sink(pipeline).pending = <<>>
        /\ ~Sink(pipeline).open

\* ------------------------------------------------------------------------
\* GCode, character by character (src/unnamed/part_008, lines 125-242)
\* ------------------------------------------------------------------------
\* A string is a sequence of characters.  A GCode is
\*   [command, params, rawCode]: params is the sequence of [key, value] in
\* the order a for-in loop visits the keys of the params object.
MaxChars == 5                \* characters of a line

Chars == {" ", ";", "=", "G", "1", "x"}
EncodedCommands == UNION {[1..n -> Chars] : n \in 0..MaxChars}

COMMENT == <<";">>
Newline == <<"\n">>
Space == <<" ">>

RECURSIVE TrimStart(_)
TrimStart(s) == IF s # <<>> /\ Head(s) = " " THEN TrimStart(Tail(s)) ELSE s

RECURSIVE TrimEnd(_)
TrimEnd(s) ==
    IF s # <<>> /\ s[Len(s)] = " " THEN TrimEnd(SubSeq(s, 1, Len(s) - 1)) ELSE s

\* String.prototype.trim
Trim(s) == TrimStart(TrimEnd(s))

RECURSIVE Split(_, _)
\* String.prototype.split(sep) for a separator of one character.
Split(s, sep) ==
    IF \E i \in DOMAIN s : s[i] = sep
    THEN LET i == CHOOSE i \in DOMAIN s :
                      s[i] = sep /\ \A j \in 1..(i - 1) : s[j] # sep
         IN  <<SubSeq(s, 1, i - 1)>> \o Split(SubSeq(s, i + 1, Len(s)), sep)
    ELSE <<s>>

RECURSIVE Join(_, _)
\* Array.prototype.join(sep)
Join(parts, sep) ==
    IF parts = <<>> THEN <<>>
    ELSE IF Len(parts) = 1 THEN parts[1]
    ELSE parts[1] \o sep \o Join(Tail(parts), sep)

\* String.prototype.toUpperCase
ToUpperCase(s) == [i \in DOMAIN s |-> IF s[i] = "x" THEN "X" ELSE s[i]]

Includes(s, c) == \E i \in DOMAIN s : s[i] = c
StartsWith(s, c) == s # <<>> /\ s[1] = c

\* A property key that is an array index: a for-in loop visits these first,
\* in ascending numeric order, then the other keys in insertion order.  The
\* only digit of Chars is "1", so the numeric order is the order of lengths.
IsArrayIndex(key) == key # <<>> /\ \A i \in DOMAIN key : key[i] = "1"

HasParam(params, key) == \E i \in DOMAIN params : params[i].key = key

\* The position a new key takes in the enumeration order.
KeyPosition(params, key) ==
    IF IsArrayIndex(key)
    THEN 1 + Cardinality({i \in DOMAIN params :
                 IsArrayIndex(params[i].key) /\ Len(params[i].key) < Len(key)})
    ELSE Len(params) + 1

\* this.params[key] = value
SetParam(params, key, value) ==
    IF HasParam(params, key)
    THEN [i \in DOMAIN params |->
             IF params[i].key = key THEN [key |-> key, value |-> value] ELSE params[i]]
    ELSE LET n == KeyPosition(params, key)
         IN  SubSeq(params, 1, n - 1) \o <<[key |-> key, value |-> value]>>
             \o SubSeq(params, n, Len(params))

\* this.params[key]
GetParam(params, key) ==
    LET i == CHOOSE i \in DOMAIN params : params[i].key = key IN params[i].value

\* The fields' initializers.
EmptyGCode == [command |-> <<>>, params |-> <<>>, rawCode |-> <<>>]

\* constructor, lines 190-197: the part belongs to the comment.
CommentPart(g, part) ==
    IF HasParam(g.params, COMMENT)
    THEN [g EXCEPT !.params = SetParam(@, COMMENT, GetParam(@, COMMENT) \o Space \o part)]
    ELSE [g EXCEPT !.params = SetParam(@, COMMENT, Tail(part))]

\* constructor, lines 199-212: the part is a parameter, KEY=VALUE when it
\* holds a "=", otherwise its first character and the rest.
ParamPart(g, part) ==
    IF Includes(part, "=")
    THEN LET kv == Split(part, "=")
         IN  [g EXCEPT !.params = SetParam(@, ToUpperCase(kv[1]), kv[2])]
    ELSE [g EXCEPT !.params = SetParam(@, ToUpperCase(<<part[1]>>), Tail(part))]

RECURSIVE ParseParts(_, _, _, _, _)
\* constructor, lines 179-213: the loop over encodedCommand.split(' ').
\* index is the JavaScript index of Head(parts).
ParseParts(g, parts, index, commentBegan, commandOnly) ==
    IF parts = <<>> THEN g
    ELSE LET part == Head(parts)
             isComment == StartsWith(part, ";")
             named == IF index = 0
                      THEN [g EXCEPT !.command = IF isComment THEN COMMENT ELSE part]
                      ELSE g
         IN  IF part = <<>> /\ ~commentBegan
             THEN ParseParts(g, Tail(parts), index + 1, commentBegan, commandOnly)
             ELSE IF index = 0 /\ commandOnly THEN named
             ELSE IF commentBegan \/ isComment
             THEN ParseParts(CommentPart(named, part), Tail(parts), index + 1,
                             TRUE, commandOnly)
             ELSE IF index > 0
             THEN ParseParts(ParamPart(named, part), Tail(parts), index + 1,
                             commentBegan, commandOnly)
             ELSE ParseParts(named, Tail(parts), index + 1, commentBegan, commandOnly)

\* new GCode(encodedCommand, commandOnly)
NewGCode(encoded, commandOnly) ==
    LET g == [EmptyGCode EXCEPT !.rawCode = IF commandOnly THEN encoded ELSE <<>>]
    IN  IF Trim(encoded) = <<>> THEN g
        ELSE ParseParts(g, Split(encoded, " "), 0, FALSE, commandOnly)

RECURSIVE EncodeParams(_)
\* toString, lines 230-238: KEY, KEYVALUE for a key of one character,
\* KEY=VALUE for a longer key.
EncodeParams(params) ==
    IF params = <<>> THEN <<>>
    ELSE LET param == Head(params)
         IN  <<param.key
               \o (IF param.value # <<>>
                   THEN (IF Len(param.key) > 1 THEN <<"=">> ELSE <<>>) \o param.value
                   ELSE <<>>)>>
             \o EncodeParams(Tail(params))

\* toString(); ToString is an operator of the TLC module.
ToStringOf(g) ==
    IF g.rawCode # <<>> THEN Trim(g.rawCode) \o Newline
    ELSE Join((IF g.command # COMMENT THEN <<g.command>> ELSE <<>>)
              \o EncodeParams(g.params), Space) \o Newline

\* A line of a file written with toString, as readline yields it: without
\* the line terminator.
ReadBack(txt) ==
    IF txt # <<>> /\ txt[Len(txt)] = "\n" THEN SubSeq(txt, 1, Len(txt) - 1) ELSE txt

\* run, lines 59-60: new GCode(line, true), then new GCode(line) when some
\* pipe supports the command.
RunGCode(line, allSupportedCommands) ==
    IF NewGCode(line, TRUE).command \in allSupportedCommands
    THEN NewGCode(line, FALSE)
    ELSE NewGCode(line, TRUE)

\* ------------------------------------------------------------------------
\* SpecGCode: one line is parsed, serialized and parsed again
\* ------------------------------------------------------------------------
\* The unions of supported commands over a chain without and with a pipe
\* that supports G1.
SupportedSets == {{}, {<<"G", "1">>}}

InitGCode ==
    /\ encodedCommand \in EncodedCommands
    /\ supported \in SupportedSets
    /\ mode = "none"
    /\ built = EmptyGCode
    /\ serialized = <<>>
    /\ rebuilt = EmptyGCode
    /\ stage = "line"
    /\ NoTimeline /\ NoRun /\ NoSimulators

\* new GCode(encodedCommand, commandOnly)
GCodeNew ==
    /\ stage = "line"
    /\ \E commandOnly \in BOOLEAN :
          /\ built' = NewGCode(encodedCommand, commandOnly)
          /\ mode' = IF commandOnly THEN "commandOnly" ELSE "full"
    /\ stage' = "parsed"
    /\ UNCHANGED <<encodedCommand, supported, serialized, rebuilt, tlVars, runVars, simVars>>

\* The line is parsed as run parses it.
GCodeRun ==
    /\ stage = "line"
    /\ built' = RunGCode(encodedCommand, supported)
    /\ mode' = "run"
    /\ stage' = "parsed"
    /\ UNCHANGED <<encodedCommand, supported, serialized, rebuilt, tlVars, runVars, simVars>>

\* built.toString(), as OutputPipe.input calls it
GCodeToString ==
    /\ stage = "parsed"
    /\ serialized' = ToStringOf(built)
    /\ stage' = "serialized"
    /\ UNCHANGED <<encodedCommand, supported, mode, built, rebuilt, tlVars, runVars, simVars>>

\* The serialized line is read back and parsed in full.
GCodeReparse ==
    /\ stage = "serialized"
    /\ rebuilt' = NewGCode(ReadBack(serialized), FALSE)
    /\ stage' = "reparsed"
    /\ UNCHANGED <<encodedCommand, supported, mode, built, serialized, tlVars, runVars, simVars>>

NextGCode ==
    \/ GCodeNew
    \/ GCodeRun
    \/ GCodeToString
    \/ GCodeReparse

SpecGCode == InitGCode /\ [][NextGCode]_vars

\* C13: a line parsed with commandOnly = true serializes to the line with
\* only its trailing whitespace removed, followed by one newline: the
\* characters it starts with are reproduced one for one, and an empty line
\* gives a single newline.
C13_NameOnlyRoundTrip ==
    (mode = "commandOnly" /\ stage \in {"serialized", "reparsed"}) =>
        serialized = TrimEnd(encodedCommand) \o Newline

\* C14: parsing a line in full, serializing it and parsing the result again
\* yields the same command name and the same parameters: same keys, same
\* values, same order.
C14_FullRoundTrip ==
    (mode = "full" /\ stage = "reparsed") =>
        rebuilt.command = built.command /\ rebuilt.params = built.params

\* C15: the command run feeds to the head pipe is parsed in full (its
\* parameters populated, no raw text) exactly when its name is in the union
\* of the pipes' supported commands; otherwise it carries its name and the
\* raw line only, and the sink writes the line as it was read (trailing
\* whitespace aside, as for every name-only command).
C15_ParseModeSelection ==
    (mode = "run" /\ stage \in {"serialized", "reparsed"}) =>
        IF NewGCode(encodedCommand, TRUE).command \in supported
        THEN built.rawCode = <<>> /\ built = NewGCode(encodedCommand, FALSE)
        ELSE /\ built.command = NewGCode(encodedCommand, TRUE).command
             /\ built.params = <<>>
             /\ built.rawCode = encodedCommand
             /\ serialized = TrimEnd(encodedCommand) \o Newline

\* ------------------------------------------------------------------------
\* SpecSimulators: a Fan and a Toolhead execute a sequence of commands
\* ------------------------------------------------------------------------
MaxCommands == 3             \* commands passed to exec

\* A parsed command with the given name and parameters.
Command(name, params) ==
    [command |-> name, params |-> params, rawCode |-> "", id |-> 0, origin |-> "file"]

\* G1 with the axes of the set axes at 1 and a feed rate of 60000 mm/min
\* (1 mm per ms).
MoveParams(axes) == [k \in axes \cup {"F"} |-> IF k = "F" THEN 60000 ELSE 1]

\* The commands exec is called with.
SimCommands ==
    {Command("G1", MoveParams(axes)) : axes \in SUBSET {"X", "Y", "Z", "E"}}
    \cup {Command("G1", [X |-> 1]), Command("G1", [X |-> 1, F |-> 30000]),
          Command("G1", [X |-> 0, F |-> 60000])}
    \cup {Command(name, NoParams) : name \in {"G90", "G91", "M82", "M83", "M106", "M107", ";"}}
    \cup {Command("M106", [S |-> s]) : s \in 0..2}
    \cup {Command("G92", [X |-> 1]), Command("G92", [E |-> 0])}

InitSimulators ==
    /\ simFan = NewFan
    /\ simToolhead = NewToolhead
    /\ simBefore = [fan |-> NewFan, toolhead |-> NewToolhead]
    /\ executed = <<>>
    /\ NoTimeline /\ NoRun /\ NoGCode

\* toolhead.exec(gcode) and fan.exec(gcode)
SimExec ==
    /\ Len(executed) < MaxCommands
    /\ \E command \in SimCommands :
          /\ simToolhead' = ToolheadExec(simToolhead, command)
          /\ simFan' = FanExec(simFan, command)
          /\ executed' = Append(executed, command)
    /\ simBefore' = [fan |-> simFan, toolhead |-> simToolhead]
    /\ UNCHANGED <<tlVars, runVars, gcVars>>

NextSimulators == SimExec

SpecSimulators == InitSimulators /\ [][NextSimulators]_vars

\* C16: isFreeMove is true exactly for a displacement with dx # 0 or dy # 0,
\* and de = 0; isLayerChange exactly for dx = 0, dy = 0 and dz # 0.  So a
\* move with dx = 0 and dy # 0 is a free move and never a layer change.
C16_MoveClassification ==
    LET v == simToolhead.lastMoveDisplacement
    IN  /\ IsFreeMove(v) <=> ((v[1] # 0 \/ v[2] # 0) /\ v[4] = 0)
        /\ IsLayerChange(v) <=> (v[1] = 0 /\ v[2] = 0 /\ v[3] # 0)

\* C17: after Fan.exec the speedDelta is the duty after the call minus the
\* duty before it; it is 0 after a command that leaves the duty unchanged,
\* whatever was executed earlier.
C17_SpeedDelta ==
    executed # <<>> => simFan.speedDelta = simFan.speed - simBefore.fan.speed

\* C18: setWindowSize with a negative size leaves the window size and the
\* stored items, order included, as they were and calls no observer; a
\* Timeline constructed with a negative size starts as one with the default
\* window size.
C18_NegativeSizeIgnored ==
    /\ (lastOp = "new" /\ lastArg < 0) =>
          (windowSize_ms = DefaultWindowSize /\ timeline = <<>> /\ delivered = <<>>)
    /\ [][(lastOp' = "setWindowSize" /\ lastArg' < 0) =>
             /\ windowSize_ms' = windowSize_ms
             /\ timeline' = timeline
             /\ delivered' = delivered
             /\ lastOut' = <<>>]_vars

\* C18 witness: setWindowSize was just called with a negative size on a
\* Timeline that holds items of different timestamps, and nothing was
\* delivered to any observer so far.
C18_Witness ==
    /\ lastOp = "setWindowSize" /\ lastArg < 0
    /\ Len(timeline) >= 2 /\ Cardinality(TsOf(timeline)) >= 2
    /\ windowSize_ms > 0
    /\ delivered = <<>>

\* The kinds of the pipes ahead of the sink, head first.
ChainKinds == [i \in 1..(Len(pipeline) - 1) |-> pipeline[i].kind]

\* C19: the handler adds a PrematureFanPipe exactly when speedupTime > 0 and
\* a SmoothFanPipe exactly when smoothTime > 0, the PrematureFanPipe ahead
\* of the SmoothFanPipe; with both values 0 the chain is the sink alone and
\* the output of a completed run is the input, line for line.
C19_ConditionalChain ==
    /\ ChainKinds = (IF args.speedupTime > 0 THEN <<"premature">> ELSE <<>>)
                    \o (IF args.smoothTime > 0 THEN <<"smooth">> ELSE <<>>)
    /\ Sink(pipeline).kind = "output"
    /\ (args.speedupTime = 0 /\ args.smoothTime = 0 /\ pc = "done") =>
          /\ Len(pipeline) = 1
          /\ Len(OutputFile) = Len(fed)
          /\ \A n \in DOMAIN fed : WrittenLine(OutputFile[n]) = fed[n].rawCode

\* ------------------------------------------------------------------------
\* The scenario: a fan burst shorter than smoothTime
\* ------------------------------------------------------------------------
Scenario == <<"M106 S50", "G1 X10 F3000", "M106 S255", "M107">>

\* run has completed on the file Scenario, through a SmoothFanPipe alone.
ScenarioDone ==
    /\ pc = "done" /\ HeadIsSmooth /\ Len(pipeline) = 2
    /\ pipeline[1].smoothTime = ScenarioSmoothTime
    /\ Len(fed) = Len(Scenario)
    /\ \A n \in DOMAIN fed :
          /\ fed[n].command = CommandOf(Scenario[n])
          /\ fed[n].params = ParamsOf(Scenario[n])

RECURSIVE Replay(_, _)
\* The Toolhead after it has executed cmds.
Replay(th, cmds) ==
    IF cmds = <<>> THEN th ELSE Replay(ToolheadExec(th, Head(cmds)), Tail(cmds))

\* The simulated time at which the k-th command of the output is reached.
OutputTime(k) == Replay(NewToolhead, SubSeq(OutputFile, 1, k - 1)).currentTime_ms

\* The positions of the fan commands in the output.
OutputFans == {k \in DOMAIN OutputFile : IsFanCommand(OutputFile[k])}

\* The output holds no M107 and, for each duty the input holds a plateau
\* of, at most one M106.
OnePerPlateau ==
    /\ \A k \in OutputFans : OutputFile[k].command = "M106"
    /\ \A j, k \in OutputFans :
          OutputFile[j].params.S = OutputFile[k].params.S => j = k
    /\ \A k \in OutputFans : OutputFile[k].params.S \in {50, 255, 0}

\* The pipe forwarded the command from onCooldown.
FromCooldown(gcode) == gcode.origin = "smooth" /\ gcode.id = 0

\* C20: the file `M106 S50`, `G1 X10 F3000`, `M106 S255`, `M107` through a
\* SmoothFanPipe alone with smoothTime = 300: the output holds at most one
\* M106 per stable duty plateau of the input, no M107, and no two fan
\* commands within the same span of 300 units of simulated time.
C20_BurstScenario ==
    ScenarioDone =>
        /\ OnePerPlateau
        /\ \A j, k \in OutputFans :
              j < k => OutputTime(k) - OutputTime(j) >= ScenarioSmoothTime

\* C20, amended: the same file through a SmoothFanPipe alone with
\* smoothTime = 300 and the default reset threshold of 20: the output holds
\* at most one M106 per stable duty plateau of the input and no M107.  It is
\* M106 with the burst's maximum 255, the move, M106 with the final duty 0:
\* both fan commands are forwarded by the cooldown, 200 units of simulated
\* time apart, which is less than smoothTime.
C20_BurstScenarioFlushed ==
    (ScenarioDone /\ pipeline[1].smoothingResetThreshold = 20) =>
        /\ OnePerPlateau
        /\ Cardinality(OutputFans) = 2
        /\ \A k \in OutputFans : FromCooldown(OutputFile[k])
        /\ \E j, k \in OutputFans :
              /\ j < k
              /\ OutputFile[j].params.S = 255 /\ OutputFile[k].params.S = 0
              /\ OutputTime(k) - OutputTime(j) = 200
        /\ SelectNonFan(OutputFile) = SelectNonFan(fed)

\* C20 witness: the scenario has run with the default reset threshold, and
\* the output is M106 with the maximum 255, the move, M106 with the duty 0.
C20_Witness ==
    /\ ScenarioDone
    /\ pipeline[1].smoothingResetThreshold = 20
    /\ Len(OutputFile) = 3
    /\ OutputFile[1].command = "M106" /\ OutputFile[1].params.S = 255
    /\ OutputFile[2] = fed[2]
    /\ OutputFile[3].command = "M106" /\ OutputFile[3].params.S = 0
    /\ OutputTime(3) - OutputTime(1) = 200

\* ------------------------------------------------------------------------
\* Timeline observers: registerOnExpiry and the functions it returns,
\* between the calls that evict items.
\* ------------------------------------------------------------------------
MaxObservers == 2
MaxObservedSteps == 2
ObserverNames == {"a", "b"}

\* new Timeline(size) with no observer registered yet.
InitObservers ==
    /\ \E size \in {0, Infinity} :
          /\ windowSize_ms = SetWindowSize(<<>>, DefaultWindowSize, size).w
          /\ lastArg = size
    /\ timeline = <<>>
    /\ expiryCbs = <<>>
    /\ delivered = <<>>
    /\ lastOp = "new"
    /\ lastOut = <<>>
    /\ stepped = <<>>
    /\ handles = NoHandles
    /\ NoRun /\ NoGCode /\ NoSimulators

\* const unsubscribe = timeline.registerOnExpiry(cb, once)
ObsRegister ==
    /\ Len(expiryCbs) < MaxObservers
    /\ \E cb \in ObserverNames, once \in BOOLEAN :
          /\ expiryCbs' = RegisterOnExpiry(expiryCbs, cb, once)
          /\ handles' = [issued |-> handles.issued \cup {cb},
                         called |-> handles.called \ {cb}]
    /\ lastOp' = "registerOnExpiry"
    /\ lastOut' = <<>>
    /\ lastArg' = 0
    /\ UNCHANGED <<windowSize_ms, timeline, delivered, stepped,
                   runVars, gcVars, simVars>>

\* unsubscribe(): a function returned by an earlier registerOnExpiry(cb)
ObsUnsubscribe ==
    /\ \E cb \in handles.issued :
          /\ expiryCbs' = Unsubscribe(expiryCbs, cb)
          /\ handles' = [handles EXCEPT !.called = @ \cup {cb}]
    /\ lastOp' = "unsubscribe"
    /\ lastOut' = <<>>
    /\ lastArg' = 0
    /\ UNCHANGED <<windowSize_ms, timeline, delivered, stepped,
                   runVars, gcVars, simVars>>

\* timeline.step(t, data) with the timestamps of a clock that only advances
ObsStep ==
    /\ Len(stepped) < MaxObservedSteps
    /\ LET t == Len(stepped)
       IN  /\ Call("step", Step(timeline, windowSize_ms, t, Len(stepped) + 1), windowSize_ms)
           /\ stepped' = Append(stepped, t)
    /\ lastArg' = 0

NextObservers ==
    \/ ObsRegister
    \/ ObsUnsubscribe
    \/ ObsStep
    \/ DoReset

SpecObservers == InitObservers /\ [][NextObservers]_vars

\* The calls made by the last transition.
NewCalls == SubSeq(delivered', Len(delivered) + 1, Len(delivered'))

\* C21: once the function returned by registerOnExpiry(cb) has been called,
\* no item evicted afterwards is handed to cb.
C21_Unsubscribe ==
    [][\A i \in DOMAIN NewCalls : NewCalls[i].cb \notin handles.called]_vars

\* C22: items with equal timestamps are stored in insertion order: step
\* places the new item after every stored item with the same timestamp,
\* wherever in the Timeline those items are.
C22_StableOrder ==
    \A i, j \in DOMAIN timeline :
        (i < j /\ timeline[i].ts = timeline[j].ts) => timeline[i].data < timeline[j].data

\* The timestamps of the items of a sequence; the largest timestamp.
LargestTs(s) == CHOOSE m \in TsOf(s) : \A t \in TsOf(s) : t <= m

\* C23: step evicts an item only when it is older than the newest item
\* stored after the insertion by strictly more than the window size; an
\* item within the window is never evicted, and with an infinite window
\* step evicts nothing.
C23_NoEarlyEviction ==
    lastOp = "step" =>
        /\ \A i \in DOMAIN lastOut :
              LargestTs(timeline \o lastOut) - lastOut[i].ts > windowSize_ms
        /\ windowSize_ms = Infinity => lastOut = <<>>

\* A step that evicted an item and kept an item exactly windowSize_ms
\* older than the newest one.
C23_Witness ==
    /\ lastOp = "step"
    /\ lastOut # <<>>
    /\ windowSize_ms > 0
    /\ \E i \in DOMAIN timeline :
          LargestTs(timeline \o lastOut) - timeline[i].ts = windowSize_ms

\* The position of the item with payload d in the sequence s.
PositionOf(s, d) == CHOOSE i \in DOMAIN s : s[i].data = d

\* C24: trimLeft(t) evicts every stored item with timestamp < t and no item
\* with timestamp >= t, and the remaining items keep their relative order.
C24_TrimLeft ==
    [][\A t \in Timestamps :
          DoTrimLeft /\ timeline' = TrimLeft(timeline, t).tl =>
          /\ \A i \in DOMAIN timeline' : timeline'[i].ts >= t
          /\ \A i \in DOMAIN lastOut' : lastOut'[i].ts < t
          /\ \A i, j \in DOMAIN timeline' :
                i < j => PositionOf(timeline, timeline'[i].data)
                            < PositionOf(timeline, timeline'[j].data)]_vars

\* ------------------------------------------------------------------------
\* Properties of SmoothFanPipe.input, observed on the runs whose head pipe
\* is the SmoothFanPipe: every line read is one input call.
\* ------------------------------------------------------------------------
\* The last command read from the file.
LastFed == fed'[Len(fed')]

\* The most recent fan sample of a pipe.
LastSample(p) == p.fanTimeline[Len(p.fanTimeline)]

\* An input call of the head pipe in which emitFan ran: the pipe is left as
\* by the resolution followed by the rest of input.  A resolution on a
\* non-empty fan-sample store removes samples, so it is never mistaken for
\* an input without one.
WithResolution(p, gcode) ==
    SmoothIdle(SmoothStore(EmitFan(Begin(SmoothExec(p, gcode)), gcode.id), gcode)).p

\* The stores of a pipe and its last emitted speed.
Stores(p) == <<p.fanTimeline, p.gcodeTimeline, p.lastEmittedSpeed>>

\* C25: while the pipe is smoothing, every input at which the simulated time
\* is at least smoothTime past the last fan sample runs the resolution during
\* that call, whatever the sample's timestamp is.
C25_TimeRelease ==
    [][RunInput /\ HeadIsSmooth =>
          LET p == SmoothExec(pipeline[1], LastFed)
          IN  (/\ IsSmoothing(p)
               /\ p.toolhead.currentTime_ms - LastSample(p).ts >= p.smoothTime)
              => Stores(pipeline'[1]) = Stores(WithResolution(pipeline[1], LastFed))]_vars

\* The duties of the recorded fan samples, oldest first.
Samples(p) == [i \in 1..Len(p.fanTimeline) |-> p.fanTimeline[i].data]

FanOutputs(out) == SelectSeq(out, IsFanCommand)

IsPrefix(s, t) == Len(s) <= Len(t) /\ s = SubSeq(t, 1, Len(s))

\* What C26 says of one emitFan call that found the pipe p and left the
\* pipe r.p after the output() calls r.out.
ResolvedAsClaimed(p, r) ==
    LET maxFanSpeed == SeqMax(Samples(p))
        emits == maxFanSpeed >= 0 /\ maxFanSpeed # p.lastEmittedSpeed
    IN  /\ Len(FanOutputs(r.out)) <= 1
        /\ (Len(FanOutputs(r.out)) = 1) <=> emits
        /\ emits => /\ r.out # <<>>
                    /\ IsFanCommand(r.out[1])
                    /\ r.out[1].command = "M106"
                    /\ r.out[1].params.S = maxFanSpeed
        /\ r.p.lastEmittedSpeed = maxFanSpeed

\* The resolution of an input call of the head pipe, if it makes one.
InputResolves(p, gcode) == IsSmoothing(p) /\ ShouldEmitFan(SmoothExec(p, gcode))
InputResolution(p, gcode) == EmitFan(Begin(SmoothExec(p, gcode)), gcode.id)

\* The two resolutions of onCooldown.
FirstResolution(p) == EmitFan(Begin(p), 0)
SecondResolution(p) == EmitFan(Begin(FirstResolution(p).p), 0)

\* Every resolution made by the last call of the head pipe is as claimed,
\* and its output is what the pipe forwarded first during that call.
EveryResolution(Claimed(_, _)) ==
    /\ RunInput /\ InputResolves(pipeline[1], LastFed) =>
          LET r == InputResolution(pipeline[1], LastFed)
          IN  /\ IsPrefix(pipeline[1].sent \o r.out, pipeline'[1].sent)
              /\ Claimed(pipeline[1], r)
    /\ RunCooldown /\ IsSmoothing(pipeline[1]) =>
          LET r1 == FirstResolution(pipeline[1])
              r2 == SecondResolution(pipeline[1])
          IN  /\ IsPrefix(pipeline[1].sent \o r1.out \o r2.out, pipeline'[1].sent)
              /\ Claimed(pipeline[1], r1)
              /\ Claimed(r1.p, r2)

Held(tl) == {tl[i].data : i \in DOMAIN tl}
Forwarded(out) == {out[i] : i \in DOMAIN out}

\* What C27 says of one emitFan call that found the pipe p and left the
\* pipe r.p after the output() calls r.out.
LookedAheadAsClaimed(p, r) ==
    /\ Len(p.fanTimeline) > 1 =>
          /\ r.p.fanTimeline = <<LastSample(p)>>
          /\ \A i \in DOMAIN p.gcodeTimeline :
                IF p.gcodeTimeline[i].ts <= LastSample(p).ts
                THEN /\ p.gcodeTimeline[i].data \in Forwarded(r.out)
                     /\ p.gcodeTimeline[i].data \notin Held(r.p.gcodeTimeline)
                ELSE /\ p.gcodeTimeline[i].data \notin Forwarded(r.out)
                     /\ p.gcodeTimeline[i].data \in Held(r.p.gcodeTimeline)
    /\ Len(p.fanTimeline) = 1 =>
          /\ r.p.fanTimeline = <<>>
          /\ r.p.gcodeTimeline = <<>>
          /\ Held(p.gcodeTimeline) \subseteq Forwarded(r.out)

\* C27: a resolution that finds more than one fan sample keeps exactly the
\* most recent one, forwards the pending commands stamped up to that sample
\* and keeps the later ones; a resolution that finds one sample empties both
\* stores and forwards every pending command.
C27_LookAhead ==
    [][HeadIsSmooth => EveryResolution(LookedAheadAsClaimed)]_vars

\* C28: an input call that ends with smoothing inactive leaves no pending
\* command, and a non-fan command received while smoothing is inactive is
\* forwarded within that call.
C28_NoBufferingWhenIdle ==
    [][RunInput /\ HeadIsSmooth =>
          /\ ~IsSmoothing(pipeline'[1]) => pipeline'[1].gcodeTimeline = <<>>
          /\ (~IsSmoothing(pipeline[1]) /\ ~IsFanCommand(LastFed)) =>
                pipeline'[1].sent = Append(pipeline[1].sent, LastFed)]_vars

\* C28 witness: no resolution has run and no fan sample is stored, so the
\* pipe has been idle since warmup; the non-fan commands received, the last
\* line among them, have all been forwarded.
C28_Witness ==
    /\ HeadIsSmooth /\ pc = "stream" /\ Len(fed) >= 2
    /\ ~IsSmoothing(pipeline[1])
    /\ pipeline[1].lastEmittedSpeed = NullSpeed
    /\ pipeline[1].gcodeTimeline = <<>>
    /\ ~IsFanCommand(fed[Len(fed)])
    /\ pipeline[1].sent = SelectNonFan(fed)
    /\ pipeline[1].sent[Len(pipeline[1].sent)] = fed[Len(fed)]

\* A fan command that leaves the simulated duty of the pipe p as it is.
Absorbed(p, gcode) == IsFanCommand(gcode) /\ FanExec(p.fan, gcode).speed = p.fan.speed

\* The commands the head pipe forwarded during the last call.
NewlySent == SubSeq(pipeline'[1].sent, Len(pipeline[1].sent) + 1, Len(pipeline'[1].sent))

\* What an input call of an absorbed fan command does to the fan samples.
AbsorbedSilently ==
    /\ Held(pipeline'[1].fanTimeline) \subseteq Held(pipeline[1].fanTimeline)
    /\ Len(pipeline'[1].fanTimeline) <= Len(pipeline[1].fanTimeline)
    /\ ~IsSmoothing(pipeline[1]) => ~IsSmoothing(pipeline'[1])

\* Every fan command forwarded by the last call is a synthesized M106.
OnlySynthesized ==
    \A i \in DOMAIN NewlySent :
        IsFanCommand(NewlySent[i]) =>
            NewlySent[i].origin = "smooth" /\ NewlySent[i].command = "M106"

\* C29: a fan command that leaves the simulated duty unchanged adds no fan
\* sample, does not start smoothing and puts no fan command in the output;
\* every fan command in the output is a synthesized M106, never an input
\* command.
C29_AbsorbedFanCommands ==
    [][HeadIsSmooth =>
          /\ RunInput /\ Absorbed(pipeline[1], LastFed) =>
                AbsorbedSilently /\ FanOutputs(NewlySent) = <<>>
          /\ OnlySynthesized]_vars

\* C29, amended: the only fan command the input call of an absorbed fan
\* command can put in the output is the one emitted by a resolution of the
\* earlier samples that runs in that call.
C29_AbsorbedExceptResolution ==
    [][HeadIsSmooth =>
          /\ RunInput /\ Absorbed(pipeline[1], LastFed) =>
                /\ AbsorbedSilently
                /\ FanOutputs(NewlySent) =
                       IF InputResolves(pipeline[1], LastFed)
                       THEN FanOutputs(InputResolution(pipeline[1], LastFed).out)
                       ELSE <<>>
          /\ OnlySynthesized]_vars

\* C29 witness: the last line repeats the duty set by the line before it;
\* the one sample of that line is stored and no fan command has been output.
C29_Witness ==
    /\ HeadIsSmooth /\ pc = "stream" /\ Len(fed) >= 2
    /\ fed[Len(fed)].command = "M106" /\ fed[Len(fed) - 1].command = "M106"
    /\ Has(fed[Len(fed)], "S") /\ Has(fed[Len(fed) - 1], "S")
    /\ fed[Len(fed)].params.S = fed[Len(fed) - 1].params.S
    /\ Len(pipeline[1].fanTimeline) = 1
    /\ LastSample(pipeline[1]).data = fed[Len(fed)].params.S
    /\ FanOutputs(pipeline[1].sent) = <<>>

\* Some fan command of cmds changes the duty.
ChangesDuty(cmds) ==
    \E n \in DOMAIN cmds : IsFanCommand(cmds[n]) /\ DutyAt(cmds, n) # DutyAt(cmds, n - 1)

\* The duty carried by the last fan command the head pipe has forwarded.
LastFanOutput == SelectFan(pipeline[1].sent)[Len(SelectFan(pipeline[1].sent))]

FinalDutyPreserved ==
    /\ SelectFan(pipeline[1].sent) # <<>>
    /\ DutyAfter(LastFanOutput, NullSpeed) = DutyAt(fed, Len(fed))

\* C30: when some fan command of the input changes the duty, after cooldown
\* the last fan command in SmoothFanPipe's output carries the duty in force
\* at the end of the input.
C30_FinalFanState ==
    (HeadIsSmooth /\ CooledDown /\ ChangesDuty(fed)) => FinalDutyPreserved

\* C30, amended: the same for the files whose feed rates are positive.
C30_FinalFanStatePositiveFeed ==
    (HeadIsSmooth /\ CooledDown /\ PositiveFeed(fed) /\ ChangesDuty(fed))
        => FinalDutyPreserved

\* C30 witness: a completed run over a file with positive feed rates that
\* ends at a duty below the largest one it set; the output holds more than
\* one fan command and the last one carries the final duty.
C30_Witness ==
    /\ HeadIsSmooth /\ pc = "done" /\ PositiveFeed(fed)
    /\ ChangesDuty(fed)
    /\ FinalDutyPreserved
    /\ Len(SelectFan(pipeline[1].sent)) >= 2
    /\ \E n \in DOMAIN fed : DutyAt(fed, n) > DutyAt(fed, Len(fed))

\* ------------------------------------------------------------------------
\* A burst of fan commands in the file read by a run
\* ------------------------------------------------------------------------
\* The Toolhead after the first n commands of cmds.
ToolheadAt(cmds, n) == Replay(NewToolhead, SubSeq(cmds, 1, n))

\* The most recent motion is a layer change or a free move above threshold.
ResetMove(th, threshold) ==
    \/ IsLayerChange(th.lastMoveDisplacement)
    \/ /\ IsFreeMove(th.lastMoveDisplacement)
       /\ MoveLength(th.lastMoveDisplacement) > threshold

\* cmds holds one burst, the fan commands a..b, each changing the duty, all
\* received at the same simulated time; no reset move is the most recent
\* motion at any command, the feed rates are positive, and the commands after
\* the burst are at least smoothTime of motion.
BurstAt(cmds, a, b, smoothTime, threshold) ==
    /\ 1 <= a /\ a <= b /\ b < Len(cmds)
    /\ \A n \in DOMAIN cmds :
          /\ IsFanCommand(cmds[n]) <=> (a <= n /\ n <= b)
          /\ IsFanCommand(cmds[n]) => DutyAt(cmds, n) # DutyAt(cmds, n - 1)
          /\ ~ResetMove(ToolheadAt(cmds, n), threshold)
    /\ PositiveFeed(cmds)
    /\ ToolheadAt(cmds, Len(cmds)).currentTime_ms - ToolheadAt(cmds, a).currentTime_ms
          >= smoothTime

\* The largest duty set by the commands a..b of cmds.
BurstMax(cmds, a, b) ==
    CHOOSE d \in {DutyAt(cmds, n) : n \in a..b} :
        \A n \in a..b : DutyAt(cmds, n) <= d

\* The duties of the fan commands the head pipe has forwarded, in order.
OutputDuties ==
    [i \in DOMAIN SelectFan(pipeline[1].sent) |->
        DutyAfter(SelectFan(pipeline[1].sent)[i], NullSpeed)]

StampOfCommand(gcode) ==
    LET k == CHOOSE k \in DOMAIN pipeline[1].stamped : pipeline[1].stamped[k].data = gcode
    IN  pipeline[1].stamped[k].ts

\* C32: with positive feed rates the commands PrematureFanPipe forwards,
\* original and synthesized, leave it in non-decreasing order of the
\* timestamps they were stored with.
C32_TimestampOrderedRelease ==
    (HeadIsPremature /\ PositiveFeed(fed)) =>
        \A i, j \in DOMAIN pipeline[1].sent :
            i < j => StampOfCommand(pipeline[1].sent[i]) <= StampOfCommand(pipeline[1].sent[j])

\* The input commands among the commands the head pipe has forwarded.
OriginalsSent == SelectSeq(pipeline[1].sent, LAMBDA gcode : gcode.origin = "file")

\* By the end of cooldown every input command has been forwarded unchanged,
\* exactly once.
EveryInputOnce ==
    CooledDown =>
        /\ Len(OriginalsSent) = Len(fed)
        /\ \A n \in DOMAIN fed : Cardinality(Positions(pipeline[1].sent, fed[n])) = 1

\* The input commands forwarded so far are in input order.
InputOrderKept ==
    \A i, j \in DOMAIN OriginalsSent : i < j => OriginalsSent[i].id < OriginalsSent[j].id

\* Before cooldown an input command stamped t has been forwarded only if an
\* input stamped later than t + speedupTime has arrived.
HeldForLeadTime ==
    ~CooledDown =>
        \A i \in DOMAIN OriginalsSent :
            \E n \in DOMAIN fed :
                StampOf(n) > StampOfCommand(OriginalsSent[i]) + pipeline[1].speedupTime

LastExecuted == executed[Len(executed)]
Before == simBefore.toolhead
After == simToolhead

AxisKeys == <<"X", "Y", "Z", "E">>

\* Axis i of the last command was moved as the mode says: to the value
\* given when absolute is true, by the value given otherwise; an axis the
\* command does not carry stays where it was with a displacement of 0.
AxisMoved(i, absolute) ==
    LET k == AxisKeys[i]
    IN  IF ~Has(LastExecuted, k)
        THEN /\ After.lastMoveDisplacement[i] = 0
             /\ After.position[i] = Before.position[i]
        ELSE IF absolute
        THEN /\ After.lastMoveDisplacement[i] = LastExecuted.params[k] - Before.position[i]
             /\ After.position[i] = LastExecuted.params[k]
        ELSE /\ After.lastMoveDisplacement[i] = LastExecuted.params[k]
             /\ After.position[i] = Before.position[i] + LastExecuted.params[k]

\* C34: a G1 moves each of X, Y and Z by the positioning mode and E by the
\* extrusion mode alone (absolute: displacement = value - previous position,
\* position = value; relative: displacement = value, position = previous +
\* value), and an axis it does not carry has displacement 0 and keeps its
\* position; G90 / G91 change the positioning mode and nothing else, M82 /
\* M83 the extrusion mode and nothing else.
C34_ToolheadMotion ==
    executed # <<>> =>
        /\ LastExecuted.command = "G1" =>
              /\ \A i \in 1..3 : AxisMoved(i, Before.positioningMode = "G90")
              /\ AxisMoved(4, Before.extrusionMode = "M82")
              /\ After.positioningMode = Before.positioningMode
              /\ After.extrusionMode = Before.extrusionMode
        /\ LastExecuted.command \in {"G90", "G91"} =>
              After = [Before EXCEPT !.positioningMode = LastExecuted.command]
        /\ LastExecuted.command \in {"M82", "M83"} =>
              After = [Before EXCEPT !.extrusionMode = LastExecuted.command]

\* C34 witness: a G1 carrying X and E, but not Y, ran in relative
\* positioning and absolute extrusion from a position away from the origin:
\* X went on by 1 and E stayed at the value given.
C34_Witness ==
    /\ executed # <<>>
    /\ LastExecuted.command = "G1"
    /\ Has(LastExecuted, "X") /\ Has(LastExecuted, "E") /\ ~Has(LastExecuted, "Y")
    /\ Before.positioningMode = "G91" /\ Before.extrusionMode = "M82"
    /\ Before.position[1] = 1 /\ Before.position[4] = 1
    /\ After.position[1] = 2 /\ After.lastMoveDisplacement[1] = 1
    /\ After.position[4] = 1 /\ After.lastMoveDisplacement[4] = 0

\* The G1 commands of cmds that carry an F.
FeedCommands(cmds) ==
    SelectSeq(cmds, LAMBDA c : c.command = "G1" /\ Has(c, "F"))

\* The latest F value of cmds, in mm/min (0 when there is none).
LatestF(cmds) ==
    IF FeedCommands(cmds) = <<>> THEN 0
    ELSE FeedCommands(cmds)[Len(FeedCommands(cmds))].params.F

\* A positive feed rate was established before the first move: every G1
\* of cmds carries a positive F or follows a G1 that does.
FeedEstablished(cmds) ==
    /\ \A n \in DOMAIN cmds : cmds[n].command = "G1" => LatestF(SubSeq(cmds, 1, n)) > 0
    /\ \A n \in DOMAIN cmds : (cmds[n].command = "G1" /\ Has(cmds[n], "F")) => cmds[n].params.F > 0

\* C35: with a positive feed rate established, a G1 advances the elapsed
\* time by (length of its X/Y/Z displacement) / velocity * 1000, in whole
\* milliseconds, the velocity being the latest F value (that of the command
\* itself when it carries one) divided by 60; a G1 carrying none of X, Y, Z
\* advances it by 0; every other command leaves it as it was, and it never
\* decreases.
C35_ToolheadTime ==
    (executed # <<>> /\ FeedEstablished(executed)) =>
        /\ LastExecuted.command = "G1" =>
              /\ After.currentTime_ms = Before.currentTime_ms
                    + (MoveLength(After.lastMoveDisplacement) * 1000)
                          \div (LatestF(executed) \div 60)
              /\ (\A k \in {"X", "Y", "Z"} : ~Has(LastExecuted, k)) =>
                    After.currentTime_ms = Before.currentTime_ms
        /\ LastExecuted.command # "G1" => After.currentTime_ms = Before.currentTime_ms
        /\ After.currentTime_ms >= Before.currentTime_ms

\* C35 witness: a G1 without an F moved X by 1 mm after a G1 with F30000
\* (500 mm/s) had taken 2 ms: the second move took 2 ms as well.
C35_Witness ==
    /\ executed # <<>> /\ FeedEstablished(executed)
    /\ LastExecuted.command = "G1" /\ ~Has(LastExecuted, "F")
    /\ LatestF(executed) = 30000
    /\ MoveLength(After.lastMoveDisplacement) = 1
    /\ Before.currentTime_ms = 2
    /\ After.currentTime_ms = 4

\* C36: a G92 sets the position of every axis it carries, X, Y, Z and E,
\* to the value given, leaves the other axes where they were and changes
\* neither the last-move displacement, the velocity nor the elapsed time;
\* a G1 that follows it in absolute mode is displaced, on an axis both
\* carry, by its value minus the value the G92 gave.
C36_PositionOverride ==
    /\ (executed # <<>> /\ LastExecuted.command = "G92") =>
          /\ \A i \in 1..4 :
                After.position[i] = IF Has(LastExecuted, AxisKeys[i])
                                    THEN LastExecuted.params[AxisKeys[i]]
                                    ELSE Before.position[i]
          /\ After.lastMoveDisplacement = Before.lastMoveDisplacement
          /\ After.currentVelocity = Before.currentVelocity
          /\ After.currentTime_ms = Before.currentTime_ms
    /\ (Len(executed) >= 2 /\ LastExecuted.command = "G1"
           /\ executed[Len(executed) - 1].command = "G92") =>
          \A i \in 1..4 :
              LET k == AxisKeys[i]
                  absolute == IF i = 4 THEN Before.extrusionMode = "M82"
                              ELSE Before.positioningMode = "G90"
              IN  (absolute /\ Has(LastExecuted, k) /\ Has(executed[Len(executed) - 1], k)) =>
                      After.lastMoveDisplacement[i] =
                          LastExecuted.params[k] - executed[Len(executed) - 1].params[k]

====
